---- MODULE Spec2Model ----
(***************************************************************************)
(* Model of runcc (cc-run): the backup / mutate / spawn / restore protocol *)
(* of the run command over ~/.claude/settings.json (Host-Config) and       *)
(* ~/.runcc/config.json (Launcher-Config), together with the add, remove   *)
(* and token commands that mutate Launcher-Config.                         *)
(*                                                                         *)
(* One tool invocation runs at a time.  An invocation is split at its      *)
(* await points: an interactive prompt (readline question) and the wait    *)
(* for the child's 'close' event.                                          *)
(***************************************************************************)
EXTENDS Integers, Sequences, FiniteSets, TLC

\* JavaScript `undefined` / an absent JSON key.
UNDEF == "undefined"

\* JavaScript truthiness of an optional string.
Truthy(s) == s # UNDEF /\ s # ""

\* a || b on optional strings.
OrElse(a, b) == IF Truthy(a) THEN a ELSE b

\* JSON booleans of optional boolean fields.
JTRUE == "true"
JFALSE == "false"

(***************************************************************************)
(* Bounds of the model.                                                    *)
(***************************************************************************)
\* Number of tool invocations in one behaviour.
MaxRuns == 2

(***************************************************************************)
(* Host-Config: ~/.claude/settings.json                                    *)
(***************************************************************************)
ANTHROPIC_ENV_KEYS ==
  { "ANTHROPIC_AUTH_TOKEN", "ANTHROPIC_BASE_URL",
    "ANTHROPIC_DEFAULT_HAIKU_MODEL", "ANTHROPIC_DEFAULT_SONNET_MODEL",
    "ANTHROPIC_DEFAULT_OPUS_MODEL" }

\* env is Record<string,string>: one key outside the ANTHROPIC_* family
\* stands for every other key the user keeps there.
SettingsEnvKeys == ANTHROPIC_ENV_KEYS \cup { "OTHER_KEY" }

NoEnvKeys == [k \in SettingsEnvKeys |-> UNDEF]

\* ClaudeSettings: proxy?: string, apiUrl?: string, env?: Record<string,string>.
\* hasEnv distinguishes an absent env from env: {}.  apiUrl stands for every
\* top-level field the tool never writes.
EmptySettings ==
  [proxy |-> UNDEF, apiUrl |-> UNDEF, hasEnv |-> FALSE, env |-> NoEnvKeys]

EnvIsEmpty(env) == \A k \in SettingsEnvKeys : env[k] = UNDEF

\* A file on disk: absent, unparseable, or holding a JSON document.
AbsentFile(default) == [kind |-> "absent", doc |-> default]
CorruptFile(default) == [kind |-> "corrupt", doc |-> default]
JsonFile(d) == [kind |-> "json", doc |-> d]

\* Variant: an unparseable file yields what could be salvaged of it.
readClaudeSettings_salvage(file) ==
  IF file.kind = "json" THEN file.doc
  ELSE IF file.kind = "corrupt"
       THEN [EmptySettings EXCEPT !.proxy = "http://host-proxy:8080"]
       ELSE EmptySettings

readClaudeSettings(file) ==
  IF file.kind = "json" THEN file.doc ELSE EmptySettings

writeClaudeSettings(settings) == JsonFile(settings)

getClaudeProxy(file) == readClaudeSettings(file).proxy

\* Variant: a fresh document holding only the proxy is written.
setClaudeProxy_fresh(file, url) ==
  writeClaudeSettings([EmptySettings EXCEPT !.proxy = url])

setClaudeProxy(file, url) ==
  writeClaudeSettings([readClaudeSettings(file) EXCEPT !.proxy = url])

removeClaudeProxy(file) ==
  writeClaudeSettings([readClaudeSettings(file) EXCEPT !.proxy = UNDEF])

\* delete the five ANTHROPIC_* keys; drop env when it became empty.
clearAnthropicEnv(settings) ==
  IF settings.hasEnv
  THEN LET e == [k \in SettingsEnvKeys |->
                   IF k \in ANTHROPIC_ENV_KEYS THEN UNDEF ELSE settings.env[k]]
       IN [settings EXCEPT !.env = e, !.hasEnv = ~EnvIsEmpty(e)]
  ELSE settings

\* Variant: only the base URL and the token are looked at.
hasAnthropicEnv_twoKeys(settings) ==
  IF ~settings.hasEnv THEN FALSE
  ELSE \E k \in { "ANTHROPIC_BASE_URL", "ANTHROPIC_AUTH_TOKEN" } :
         Truthy(settings.env[k])

hasAnthropicEnv(settings) ==
  IF ~settings.hasEnv THEN FALSE
  ELSE \E k \in ANTHROPIC_ENV_KEYS : Truthy(settings.env[k])

\* Variant: only the base URL and the token are deleted.
removeThirdPartyApi_twoKeys(file) ==
  LET settings == readClaudeSettings(file)
      e == [k \in SettingsEnvKeys |->
              IF k \in { "ANTHROPIC_BASE_URL", "ANTHROPIC_AUTH_TOKEN" }
              THEN UNDEF ELSE settings.env[k]]
  IN writeClaudeSettings(
       IF settings.hasEnv
       THEN [settings EXCEPT !.env = e, !.hasEnv = ~EnvIsEmpty(e)]
       ELSE settings)

\* removeThirdPartyApi deletes the same five keys inline and always writes.
removeThirdPartyApi(file) ==
  LET settings == readClaudeSettings(file)
      e == [k \in SettingsEnvKeys |->
              IF k \in { "ANTHROPIC_BASE_URL", "ANTHROPIC_AUTH_TOKEN",
                         "ANTHROPIC_DEFAULT_HAIKU_MODEL",
                         "ANTHROPIC_DEFAULT_OPUS_MODEL",
                         "ANTHROPIC_DEFAULT_SONNET_MODEL" }
              THEN UNDEF ELSE settings.env[k]]
  IN writeClaudeSettings(
       IF settings.hasEnv
       THEN [settings EXCEPT !.env = e, !.hasEnv = ~EnvIsEmpty(e)]
       ELSE settings)

setThirdPartyApi(file, apiUrl, apiKey, models) ==
  LET settings == readClaudeSettings(file)
      e == [k \in SettingsEnvKeys |->
              CASE k = "ANTHROPIC_BASE_URL" -> apiUrl
                [] k = "ANTHROPIC_AUTH_TOKEN" -> apiKey
                [] k = "ANTHROPIC_DEFAULT_HAIKU_MODEL" /\ Truthy(models.haiku)
                     -> models.haiku
                [] k = "ANTHROPIC_DEFAULT_OPUS_MODEL" /\ Truthy(models.opus)
                     -> models.opus
                [] k = "ANTHROPIC_DEFAULT_SONNET_MODEL" /\ Truthy(models.sonnet)
                     -> models.sonnet
                [] OTHER -> settings.env[k]]
  IN writeClaudeSettings([settings EXCEPT !.hasEnv = TRUE, !.env = e])

backupClaudeSettings(file) == readClaudeSettings(file)

restoreClaudeSettings(backup) == writeClaudeSettings(backup)

(***************************************************************************)
(* Endpoint registry: config/endpoints.ts                                  *)
(***************************************************************************)
Models(h, o, s) == [haiku |-> h, opus |-> o, sonnet |-> s]

Endpoint(n, url, tok, m) ==
  [name |-> n, endpoint |-> url, token |-> tok, models |-> m]

BUILTIN_ENDPOINTS ==
  << Endpoint("glm", "https://open.bigmodel.cn/api/anthropic", UNDEF,
              Models("glm-4.7", "glm-4.7", "glm-4.7")),
     Endpoint("deepseek", "https://api.deepseek.com/anthropic", UNDEF,
              Models("deepseek-chat", "deepseek-chat", "deepseek-chat")),
     Endpoint("minimax", "https://api.minimax.io/anthropic", UNDEF,
              Models("MiniMax-M2", "MiniMax-M2", "MiniMax-M2")) >>

\* Array.prototype.findIndex by name; 0 stands for JavaScript's -1.
FindIndexByName(eps, name) ==
  IF \E i \in DOMAIN eps : eps[i].name = name
  THEN CHOOSE i \in DOMAIN eps :
         /\ eps[i].name = name
         /\ \A j \in DOMAIN eps : eps[j].name = name => i <= j
  ELSE 0

\* Variant: only the first entry of the table is recognised.
isBuiltinEndpoint_firstOnly(name) == name = BUILTIN_ENDPOINTS[1].name

isBuiltinEndpoint(name) ==
  \E i \in DOMAIN BUILTIN_ENDPOINTS : BUILTIN_ENDPOINTS[i].name = name

getBuiltinEndpoint(name) ==
  BUILTIN_ENDPOINTS[FindIndexByName(BUILTIN_ENDPOINTS, name)]

BuiltinNames == { BUILTIN_ENDPOINTS[i].name : i \in DOMAIN BUILTIN_ENDPOINTS }

(***************************************************************************)
(* Launcher-Config: ~/.runcc/config.json, config/storage.ts                *)
(***************************************************************************)
\* Every string that can become a key of the tokens map.
ProviderNames == BuiltinNames \cup { "my", "nope" }

NoTokens == [p \in ProviderNames |-> UNDEF]

ProxyConfig(en, url, cfo) ==
  [enabled |-> en, url |-> url, clearForOfficial |-> cfo]

DefaultConfig ==
  [endpoints |-> << >>, tokens |-> NoTokens, lastUsed |-> UNDEF,
   proxy |-> ProxyConfig(FALSE, UNDEF, UNDEF)]

readConfig(file) == IF file.kind = "json" THEN file.doc ELSE DefaultConfig

writeConfig(config) == JsonFile(config)

getCustomEndpoints(file) == readConfig(file).endpoints

\* Variant: the descriptor is always appended.
addCustomEndpoint_append(file, name, endpoint, token, models) ==
  writeConfig([readConfig(file) EXCEPT
                 !.endpoints = Append(@, Endpoint(name, endpoint, token, models))])

\* Replace the descriptor of the same name in place, else push.
addCustomEndpoint(file, name, endpoint, token, models) ==
  LET config == readConfig(file)
      existingIndex == FindIndexByName(config.endpoints, name)
      ep == Endpoint(name, endpoint, token, models)
  IN writeConfig(
       IF existingIndex # 0
       THEN [config EXCEPT !.endpoints[existingIndex] = ep]
       ELSE [config EXCEPT !.endpoints = Append(@, ep)])

FilterOutName(eps, name) ==
  SelectSeq(eps, LAMBDA ep : ep.name # name)

\* Variant: the filtered list is written back whether or not it is shorter.
removeCustomEndpointOk_always(file, name) == TRUE

\* TRUE when an endpoint was removed (and the document written).
removeCustomEndpointOk(file, name) ==
  Len(FilterOutName(readConfig(file).endpoints, name))
    < Len(readConfig(file).endpoints)

\* Variant: lastUsed is dropped with the endpoint it names.
removeCustomEndpoint_lastUsed(file, name) ==
  IF removeCustomEndpointOk(file, name)
  THEN writeConfig([readConfig(file) EXCEPT
                      !.endpoints = FilterOutName(@, name),
                      !.lastUsed = IF @ = name THEN UNDEF ELSE @])
  ELSE file

removeCustomEndpoint(file, name) ==
  IF removeCustomEndpointOk(file, name)
  THEN writeConfig([readConfig(file) EXCEPT
                      !.endpoints = FilterOutName(@, name)])
  ELSE file

getToken(file, provider) == readConfig(file).tokens[provider]

\* Variant: the token is written into a new document.
saveToken_fresh(file, provider, token) ==
  writeConfig([DefaultConfig EXCEPT !.tokens[provider] = token])

saveToken(file, provider, token) ==
  writeConfig([readConfig(file) EXCEPT !.tokens[provider] = token])

\* TRUE when the key is present (and the document written).
clearTokenWrites(file, provider) ==
  readConfig(file).tokens[provider] # UNDEF

clearToken(file, provider) ==
  IF clearTokenWrites(file, provider)
  THEN writeConfig([readConfig(file) EXCEPT !.tokens[provider] = UNDEF])
  ELSE file

\* token = UNDEF deletes the descriptor's token.
setCustomEndpointTokenOk(file, name) ==
  FindIndexByName(readConfig(file).endpoints, name) # 0

setCustomEndpointToken(file, name, token) ==
  LET config == readConfig(file)
      existingIndex == FindIndexByName(config.endpoints, name)
  IN IF existingIndex = 0 THEN file
     ELSE writeConfig([config EXCEPT !.endpoints[existingIndex].token = token])

\* Variant: lastUsed is not recorded.
setLastUsed_keep(file, provider) == file

setLastUsed(file, provider) ==
  writeConfig([readConfig(file) EXCEPT !.lastUsed = provider])

getProxyConfig(file) == readConfig(file).proxy

setProxyConfig(file, enabled, url, clearForOfficial) ==
  writeConfig([readConfig(file) EXCEPT
                 !.proxy = ProxyConfig(enabled, url, clearForOfficial)])

(***************************************************************************)
(* Launch environment: utils/env.ts, utils/launcher.ts                     *)
(***************************************************************************)
ProxyVars == { "http_proxy", "https_proxy", "HTTP_PROXY", "HTTPS_PROXY" }

\* PATH stands for every variable the tool never computes.
LaunchEnvKeys == ANTHROPIC_ENV_KEYS \cup ProxyVars \cup { "PATH" }

NoVars == [k \in LaunchEnvKeys |-> UNDEF]

buildEnv(options) ==
  [k \in LaunchEnvKeys |->
     CASE k = "ANTHROPIC_BASE_URL" -> options.apiEndpoint
       [] k = "ANTHROPIC_AUTH_TOKEN" -> options.apiKey
       [] k = "ANTHROPIC_DEFAULT_HAIKU_MODEL" /\ Truthy(options.models.haiku)
            -> options.models.haiku
       [] k = "ANTHROPIC_DEFAULT_OPUS_MODEL" /\ Truthy(options.models.opus)
            -> options.models.opus
       [] k = "ANTHROPIC_DEFAULT_SONNET_MODEL" /\ Truthy(options.models.sonnet)
            -> options.models.sonnet
       [] k \in ProxyVars /\ Truthy(options.proxyUrl) -> options.proxyUrl
       [] OTHER -> UNDEF]

buildOfficialEnv(proxyUrl) ==
  [k \in LaunchEnvKeys |->
     IF k \in ProxyVars /\ Truthy(proxyUrl) THEN proxyUrl ELSE UNDEF]

\* Variant: only the computed variables are passed.
SpreadEnv_computedOnly(processEnv, env) == env

\* { ...process.env, ...env }
SpreadEnv(processEnv, env) ==
  [k \in LaunchEnvKeys |-> IF env[k] # UNDEF THEN env[k] ELSE processEnv[k]]

\* spawn('claude', claudeArgs, { stdio: 'inherit', env })
launchClaude(processEnv, options, claudeArgs) ==
  [env |-> SpreadEnv(processEnv, buildEnv(options)), args |-> claudeArgs]

launchOfficialClaude(processEnv, proxyUrl, claudeArgs) ==
  [env |-> SpreadEnv(processEnv, buildOfficialEnv(proxyUrl)),
   args |-> claudeArgs]

\* 'close' carries the exit code, or null when a signal ended the child.
NULLCODE == -1

\* Variant: code || 1 in place of code ?? 0.
waitForExit_orOne(code) == IF code = NULLCODE \/ code = 0 THEN 1 ELSE code

waitForExit(code) == IF code = NULLCODE THEN 0 ELSE code

(***************************************************************************)
(* Inputs.                                                                 *)
(***************************************************************************)
\* Provider names typed on the command line.
InputNames == { "glm", "my", "nope" }

\* Names typed after `add` and `remove`: every built-in name as well.
AddNames == InputNames \cup BuiltinNames

\* Passthrough argument lists (after '--').
ArgLists == { << >>, << "--version" >> }

\* Lines typed at a prompt, before trimming.
RawAnswers == { "", "   ", " tok-1 " }
RawModelAnswers == { "", "m-1" }
RawProxyAnswers == { "", " http://proxy:8891 " }

\* Token given as an argument of `token set`.
TokenArgs == { UNDEF, "tok-2" }

UrlInputs == { "https://my.example/api", "not a url" }

\* Further endpoint operands: another scheme, and the empty string.
OtherUrlInputs == { "ftp://my.example/api", "" }

\* new URL(s) succeeds: any scheme followed by an authority parses.
UrlParses(s) == s \in { "https://my.example/api", "ftp://my.example/api" }

\* String.prototype.trim on the lines above.
trim(s) ==
  CASE s = "   " -> ""
    [] s = " tok-1 " -> "tok-1"
    [] s = " http://proxy:8891 " -> "http://proxy:8891"
    [] OTHER -> s

\* Codes carried by the child's 'close' event.
CloseCodes == { 0, 2, NULLCODE }

(***************************************************************************)
(* State.                                                                  *)
(***************************************************************************)
VARIABLES
  hostFile,    \* ~/.claude/settings.json
  cfgFile,     \* ~/.runcc/config.json
  parentEnv,   \* process.env of the tool
  pc,          \* position of the current invocation
  cmd,         \* the current (or last) invocation's command line
  local,       \* local variables of the command that live across an await
  child,       \* what spawn() was last called with
  log,         \* I/O events of the current (or last) invocation, in order
  status,      \* exit status of the tool, NOSTATUS while it runs
  closeCode,   \* code of the observed 'close' event, NOCLOSE before it
  pre,         \* both files as they were when the invocation started
  prev,        \* summary of the invocation before the current one
  runs,        \* invocations started so far
  peer         \* a second invocation of the tool, while it is not scheduled

vars == << hostFile, cfgFile, parentEnv, pc, cmd, local, child, log, status,
           closeCode, pre, prev, runs, peer >>

NOSTATUS == -2

\* Status of a process ended by SIGKILL, as the shell reports it.
KILLSTATUS == 137
NOCLOSE == -2

NoChild == [env |-> NoVars, args |-> << >>]

NoLocal ==
  [endpoint |-> Endpoint(UNDEF, UNDEF, UNDEF, Models(UNDEF, UNDEF, UNDEF)),
   token |-> UNDEF, backup |-> EmptySettings, needsRestore |-> FALSE,
   answer |-> UNDEF, addToken |-> UNDEF,
   currentConfig |-> ProxyConfig(FALSE, UNDEF, UNDEF),
   config |-> DefaultConfig]

Cmd(name, provider, persist, args, url, tokenArg) ==
  [name |-> name, provider |-> provider, persist |-> persist, args |-> args,
   url |-> url, tokenArg |-> tokenArg, argv |-> << >>]

NoCmd == Cmd("none", UNDEF, FALSE, << >>, UNDEF, UNDEF)

NoPrev == [name |-> "none", provider |-> UNDEF, answer |-> UNDEF]

\* The frame a command works on: the two files, the event log, the spawned
\* child and the command's locals.  Statements of a handler are applied to it
\* in program order.
Frame(h, c, lg, ch, lo) ==
  [host |-> h, cfg |-> c, log |-> lg, child |-> ch, local |-> lo]

HostWrite(f, fn, file) == [f EXCEPT !.host = file, !.log = Append(@, fn)]

CfgWrite(f, fn, file) == [f EXCEPT !.cfg = file, !.log = Append(@, fn)]

Event(f, e) == [f EXCEPT !.log = Append(@, e)]

Spawn(f, ch) == [f EXCEPT !.child = ch, !.log = Append(@, "spawn")]

HostWriteEvents ==
  { "removeThirdPartyApi", "removeClaudeProxy", "writeClaudeSettings",
    "setThirdPartyApi", "restoreClaudeSettings", "setClaudeProxy" }

CfgWriteEvents ==
  { "saveToken", "setLastUsed", "addCustomEndpoint", "removeCustomEndpoint",
    "clearToken", "setCustomEndpointToken", "setProxyConfig" }

(***************************************************************************)
(* commands/run.ts                                                         *)
(***************************************************************************)
\* What Array.prototype.find returns when no endpoint has the name.
NotFound == Endpoint(UNDEF, UNDEF, UNDEF, Models(UNDEF, UNDEF, UNDEF))

\* Variant: an unknown name falls back to the first built-in endpoint.
getEndpointConfig_fallback(file, name) ==
  IF isBuiltinEndpoint(name) THEN getBuiltinEndpoint(name)
  ELSE IF FindIndexByName(getCustomEndpoints(file), name) # 0
       THEN getCustomEndpoints(file)[
              FindIndexByName(getCustomEndpoints(file), name)]
       ELSE BUILTIN_ENDPOINTS[1]

\* Variant: the custom list is searched first.
getEndpointConfig_customFirst(file, name) ==
  IF FindIndexByName(getCustomEndpoints(file), name) # 0
  THEN getCustomEndpoints(file)[FindIndexByName(getCustomEndpoints(file), name)]
  ELSE IF isBuiltinEndpoint(name) THEN getBuiltinEndpoint(name)
       ELSE NotFound

\* built-in table first, then the custom list.
getEndpointConfig(file, name) ==
  IF isBuiltinEndpoint(name) THEN getBuiltinEndpoint(name)
  ELSE IF FindIndexByName(getCustomEndpoints(file), name) # 0
       THEN getCustomEndpoints(file)[
              FindIndexByName(getCustomEndpoints(file), name)]
       ELSE NotFound

\* backup.env?.ANTHROPIC_BASE_URL || backup.env?.ANTHROPIC_AUTH_TOKEN
clearsThirdPartyApi(backup) ==
  \/ Truthy(backup.env["ANTHROPIC_BASE_URL"])
  \/ Truthy(backup.env["ANTHROPIC_AUTH_TOKEN"])

\* Variant: the proxy is cleared whatever the clearForOfficial policy says.
shouldClearProxy_anyPolicy(proxyConfig, claudeProxy) == claudeProxy # UNDEF

shouldClearProxy(proxyConfig, claudeProxy) ==
  proxyConfig.clearForOfficial = JTRUE /\ claudeProxy # UNDEF

\* runOfficial up to the await on the child's exit.
runOfficialLaunch(f, processEnv, passthroughArgs) ==
  LET proxyConfig == getProxyConfig(f.cfg)
      claudeProxy == getClaudeProxy(f.host)
      backup == backupClaudeSettings(f.host)
      f1 == IF clearsThirdPartyApi(backup)
            THEN HostWrite(f, "removeThirdPartyApi", removeThirdPartyApi(f.host))
            ELSE f
      clearProxy == shouldClearProxy(proxyConfig, claudeProxy)
      useProxy == IF clearProxy THEN UNDEF ELSE claudeProxy
      f2 == IF clearProxy
            THEN HostWrite(f1, "removeClaudeProxy", removeClaudeProxy(f1.host))
            ELSE f1
      f3 == [f2 EXCEPT !.local.backup = backup,
                       !.local.needsRestore =
                          clearsThirdPartyApi(backup) \/ clearProxy]
  IN Spawn(f3, launchOfficialClaude(processEnv, useProxy, passthroughArgs))

\* Variant: the backup is never written back.
runOfficialAfterExit_never(f) == f

\* runOfficial after the child's exit was observed.
runOfficialAfterExit(f) ==
  IF f.local.needsRestore
  THEN HostWrite(f, "restoreClaudeSettings",
                 restoreClaudeSettings(f.local.backup))
  ELSE f

\* token = endpoint.token || getToken(providerName)
runProviderToken(file, providerName) ==
  OrElse(getEndpointConfig(file, providerName).token,
         getToken(file, providerName))

\* Variant: the prompted token is used but never saved.
runProviderSaveToken_unsaved(f, providerName, token) ==
  [f EXCEPT !.local.answer = token]

\* runProvider after the prompt: saveToken(providerName, token).
runProviderSaveToken(f, providerName, token) ==
  CfgWrite([f EXCEPT !.local.answer = token], "saveToken",
           saveToken(f.cfg, providerName, token))

\* runProvider from setLastUsed up to the await on the child's exit.
runProviderLaunch(f, processEnv, providerName, configureClaude, passthroughArgs, endpoint, token) ==
  LET f1 == CfgWrite(f, "setLastUsed", setLastUsed(f.cfg, providerName))
      proxyConfig == getProxyConfig(f1.cfg)
      proxyUrl == IF proxyConfig.enabled THEN proxyConfig.url ELSE UNDEF
      backup == backupClaudeSettings(f1.host)
      needsRestore == hasAnthropicEnv(backup)
      f2 == IF needsRestore
            THEN HostWrite(f1, "writeClaudeSettings",
                           writeClaudeSettings(clearAnthropicEnv(backup)))
            ELSE f1
      f3 == IF configureClaude
            THEN HostWrite(f2, "setThirdPartyApi",
                           setThirdPartyApi(f2.host, endpoint.endpoint, token,
                                            endpoint.models))
            ELSE f2
      f4 == [f3 EXCEPT !.local.backup = backup,
                       !.local.needsRestore = needsRestore,
                       !.local.endpoint = endpoint,
                       !.local.token = token]
  IN Spawn(f4, launchClaude(processEnv,
                            [apiEndpoint |-> endpoint.endpoint,
                             apiKey |-> token,
                             proxyUrl |-> proxyUrl,
                             models |-> endpoint.models],
                            passthroughArgs))

\* Variant: the backup object itself was cleared in place (no structuredClone)
\* and is what the restore writes.
runProviderAfterExit_aliased(f, configureClaude) ==
  IF f.local.needsRestore /\ ~configureClaude
  THEN HostWrite(f, "restoreClaudeSettings",
                 restoreClaudeSettings(clearAnthropicEnv(f.local.backup)))
  ELSE f

\* Variant: the restore also runs in persist mode.
runProviderAfterExit_always(f, configureClaude) ==
  IF f.local.needsRestore
  THEN HostWrite(f, "restoreClaudeSettings",
                 restoreClaudeSettings(f.local.backup))
  ELSE f

\* runProvider after the child's exit was observed.
runProviderAfterExit(f, configureClaude) ==
  IF f.local.needsRestore /\ ~configureClaude
  THEN HostWrite(f, "restoreClaudeSettings",
                 restoreClaudeSettings(f.local.backup))
  ELSE f

\* Variant: the child is spawned before the removal is persisted.
restoreOfficialRun_spawnFirst(f, processEnv, passthroughArgs) ==
  LET f1 == IF Len(passthroughArgs) > 0
            THEN Spawn(f, launchOfficialClaude(processEnv, UNDEF,
                                               passthroughArgs))
            ELSE f
  IN HostWrite(f1, "removeThirdPartyApi", removeThirdPartyApi(f1.host))

\* Variant: the child is launched whether or not arguments were passed.
restoreOfficialRun_alwaysLaunch(f, processEnv, passthroughArgs) ==
  LET f1 == HostWrite(f, "removeThirdPartyApi", removeThirdPartyApi(f.host))
  IN Spawn(f1, launchOfficialClaude(processEnv, UNDEF, passthroughArgs))

\* restoreOfficial: remove, then launch when passthrough arguments exist.
restoreOfficialRun(f, processEnv, passthroughArgs) ==
  LET f1 == HostWrite(f, "removeThirdPartyApi", removeThirdPartyApi(f.host))
  IN IF Len(passthroughArgs) > 0
     THEN Spawn(f1, launchOfficialClaude(processEnv, UNDEF, passthroughArgs))
     ELSE f1

(***************************************************************************)
(* commands/add.ts, commands/remove.ts, commands/token.ts                  *)
(***************************************************************************)
\* add: the two rejections before anything is prompted for.
addRejects(name, endpoint) == isBuiltinEndpoint(name) \/ ~UrlParses(endpoint)

\* add after both prompts: the model name fills all three tiers.
addStore(f, name, endpoint, token, modelName) ==
  CfgWrite(f, "addCustomEndpoint",
           addCustomEndpoint(f.cfg, name, endpoint, token,
                             Models(modelName, modelName, modelName)))

removeStatus(file, name) ==
  IF isBuiltinEndpoint(name) THEN 1
  ELSE IF removeCustomEndpointOk(file, name) THEN 0 ELSE 1

remove(f, name) ==
  IF ~isBuiltinEndpoint(name) /\ removeCustomEndpointOk(f.cfg, name)
  THEN CfgWrite(f, "removeCustomEndpoint", removeCustomEndpoint(f.cfg, name))
  ELSE f

isCustomEndpoint(file, name) ==
  FindIndexByName(getCustomEndpoints(file), name) # 0

assertProviderExists(file, name) ==
  isBuiltinEndpoint(name) \/ isCustomEndpoint(file, name)

\* Variant: the token always goes to tokens.<provider>.
tokenSetStore_tokens(f, provider, finalToken) ==
  CfgWrite(f, "saveToken", saveToken(f.cfg, provider, finalToken))

\* tokenSet once the final token is known.
tokenSetStore(f, provider, finalToken) ==
  IF isBuiltinEndpoint(provider)
  THEN CfgWrite(f, "saveToken", saveToken(f.cfg, provider, finalToken))
  ELSE IF setCustomEndpointTokenOk(f.cfg, provider)
       THEN CfgWrite(f, "setCustomEndpointToken",
                     setCustomEndpointToken(f.cfg, provider, finalToken))
       ELSE f

tokenClean(f, provider) ==
  IF isBuiltinEndpoint(provider)
  THEN IF Truthy(getToken(f.cfg, provider)) /\ clearTokenWrites(f.cfg, provider)
       THEN CfgWrite(f, "clearToken", clearToken(f.cfg, provider))
       ELSE f
  ELSE IF setCustomEndpointTokenOk(f.cfg, provider)
       THEN CfgWrite(f, "setCustomEndpointToken",
                     setCustomEndpointToken(f.cfg, provider, UNDEF))
       ELSE f

(***************************************************************************)
(* commands/proxy.ts                                                       *)
(***************************************************************************)
\* proxyOn once the proxy address is known: Launcher-Config, then Host-Config.
proxyOnStore(f, currentConfig, proxyUrl) ==
  LET f1 == CfgWrite(f, "setProxyConfig",
                     setProxyConfig(f.cfg, TRUE, proxyUrl,
                                    currentConfig.clearForOfficial))
  IN HostWrite(f1, "setClaudeProxy", setClaudeProxy(f1.host, proxyUrl))

\* Variant: settings.json keeps its proxy entry.
proxyOff_keepsHost(f) ==
  LET currentConfig == getProxyConfig(f.cfg)
  IN CfgWrite(f, "setProxyConfig",
              setProxyConfig(f.cfg, FALSE, currentConfig.url,
                             currentConfig.clearForOfficial))

proxyOff(f) ==
  LET currentConfig == getProxyConfig(f.cfg)
      f1 == CfgWrite(f, "setProxyConfig",
                     setProxyConfig(f.cfg, FALSE, currentConfig.url,
                                    currentConfig.clearForOfficial))
  IN HostWrite(f1, "removeClaudeProxy", removeClaudeProxy(f1.host))

\* Variant: the saved URL and clearForOfficial survive the reset.
proxyReset_keeps(f) ==
  LET currentConfig == getProxyConfig(f.cfg)
      f1 == CfgWrite(f, "setProxyConfig",
                     setProxyConfig(f.cfg, FALSE, currentConfig.url,
                                    currentConfig.clearForOfficial))
  IN HostWrite(f1, "removeClaudeProxy", removeClaudeProxy(f1.host))

proxyReset(f) ==
  LET f1 == CfgWrite(f, "setProxyConfig",
                     setProxyConfig(f.cfg, FALSE, UNDEF, UNDEF))
  IN HostWrite(f1, "removeClaudeProxy", removeClaudeProxy(f1.host))

(***************************************************************************)
(* Initial states.                                                         *)
(***************************************************************************)
OldValue(k) ==
  CASE k = "ANTHROPIC_BASE_URL" -> "https://old"
    [] k = "ANTHROPIC_AUTH_TOKEN" -> "old-key"
    [] k = "ANTHROPIC_DEFAULT_HAIKU_MODEL" -> "old-haiku"
    [] k = "ANTHROPIC_DEFAULT_OPUS_MODEL" -> "old-opus"
    [] k = "ANTHROPIC_DEFAULT_SONNET_MODEL" -> "old-sonnet"
    [] OTHER -> "1"

\* A settings document with env holding exactly the given keys.
HostDoc(proxy, hasEnv, keys) ==
  [proxy |-> proxy, apiUrl |-> "https://legacy", hasEnv |-> hasEnv,
   env |-> [k \in SettingsEnvKeys |->
              IF k \in keys THEN OldValue(k) ELSE UNDEF]]

HostProxy == "http://host-proxy:8080"

AllKeys == SettingsEnvKeys

ApiKeys == { "ANTHROPIC_BASE_URL", "ANTHROPIC_AUTH_TOKEN" }

\* Representative settings files.
InitHostFiles ==
  { AbsentFile(EmptySettings), CorruptFile(EmptySettings),
    JsonFile(HostDoc(HostProxy, FALSE, {})),
    JsonFile(HostDoc(UNDEF, TRUE, {})),
    JsonFile(HostDoc(HostProxy, TRUE, ApiKeys)),
    JsonFile(HostDoc(UNDEF, TRUE, { "ANTHROPIC_DEFAULT_HAIKU_MODEL" })),
    JsonFile(HostDoc(HostProxy, TRUE, AllKeys)) }

\* As HostDoc, with the empty string as the value of the keys in blank.
HostDocBlank(proxy, keys, blank) ==
  [HostDoc(proxy, TRUE, keys) EXCEPT
     !.env = [k \in SettingsEnvKeys |-> IF k \in blank THEN "" ELSE @[k]]]

\* Every settings file over the modelled keys, and some with empty values.
AllHostFiles ==
  { AbsentFile(EmptySettings), CorruptFile(EmptySettings) }
  \cup { JsonFile(HostDoc(p, FALSE, {})) : p \in { UNDEF, HostProxy } }
  \cup { JsonFile(HostDoc(p, TRUE, ks)) :
           p \in { UNDEF, HostProxy }, ks \in SUBSET SettingsEnvKeys }
  \cup { JsonFile(HostDocBlank(p, ks, bl)) :
           p \in { UNDEF, HostProxy },
           ks \in { ApiKeys, ANTHROPIC_ENV_KEYS },
           bl \in { { "ANTHROPIC_BASE_URL" }, ApiKeys } }

\* Launcher-Config starts as the default document; only the proxy policy,
\* which no command of this model sets, varies.
ProxyPolicies ==
  { ProxyConfig(TRUE, "http://proxy:8891", JTRUE),
    ProxyConfig(TRUE, "http://proxy:8891", UNDEF),
    ProxyConfig(FALSE, UNDEF, JTRUE),
    ProxyConfig(FALSE, UNDEF, JFALSE) }

InitCfgFiles ==
  { AbsentFile(DefaultConfig),
    JsonFile([DefaultConfig EXCEPT
                !.proxy = ProxyConfig(TRUE, "http://proxy:8891", JTRUE)]) }

AllCfgFiles ==
  { AbsentFile(DefaultConfig), CorruptFile(DefaultConfig) }
  \cup { JsonFile([DefaultConfig EXCEPT !.proxy = pr]) : pr \in ProxyPolicies }

ParentEnvs ==
  { [NoVars EXCEPT !["PATH"] = "/usr/bin"],
    [NoVars EXCEPT !["PATH"] = "/usr/bin",
                   !["ANTHROPIC_BASE_URL"] = "https://shell",
                   !["ANTHROPIC_AUTH_TOKEN"] = "shell-key",
                   !["HTTP_PROXY"] = "http://shell-proxy:3128"] }

\* The part of the state that belongs to one invocation (one OS process).
Slot(p, c, lo, ch, lg, st, cc, pr) ==
  [pc |-> p, cmd |-> c, local |-> lo, child |-> ch, log |-> lg, status |-> st,
   closeCode |-> cc, pre |-> pr]

\* The second invocation before it is started; it has read no file yet.
NoPeer ==
  Slot("idle", NoCmd, NoLocal, NoChild, << >>, NOSTATUS, NOCLOSE,
       [host |-> AbsentFile(EmptySettings), cfg |-> AbsentFile(DefaultConfig)])

InitRest ==
  /\ pc = "idle"
  /\ cmd = NoCmd
  /\ local = NoLocal
  /\ child = NoChild
  /\ log = << >>
  /\ status = NOSTATUS
  /\ closeCode = NOCLOSE
  /\ pre = [host |-> hostFile, cfg |-> cfgFile]
  /\ prev = NoPrev
  /\ peer = NoPeer

Init ==
  /\ hostFile \in InitHostFiles
  /\ cfgFile \in InitCfgFiles
  /\ parentEnv \in ParentEnvs
  /\ runs = 0
  /\ InitRest

(***************************************************************************)
(* Actions.                                                                *)
(***************************************************************************)
StartFrame == Frame(hostFile, cfgFile, << >>, NoChild, NoLocal)

CurFrame == Frame(hostFile, cfgFile, log, child, local)

Commit(f) ==
  /\ hostFile' = f.host
  /\ cfgFile' = f.cfg
  /\ log' = f.log
  /\ child' = f.child
  /\ local' = f.local

\* A new invocation of the tool from the shell.
Begin(c) ==
  /\ pc \in { "idle", "exited", "crashed", "killed" }
  /\ runs < MaxRuns
  /\ runs' = runs + 1
  /\ cmd' = c
  /\ pre' = [host |-> hostFile, cfg |-> cfgFile]
  /\ prev' = [name |-> cmd.name, provider |-> cmd.provider,
              answer |-> local.answer]
  /\ closeCode' = NOCLOSE
  /\ UNCHANGED << parentEnv, peer >>

\* The invocation goes on after an await.
Continue == UNCHANGED << parentEnv, cmd, pre, prev, runs, peer >>

\* process.exit(code), or the end of the program.
Exit(f, code) ==
  /\ Commit(Event(f, "exit"))
  /\ status' = code
  /\ pc' = "exited"

Await(f, at) ==
  /\ Commit(f)
  /\ status' = NOSTATUS
  /\ pc' = at

\* The three entry points of run.ts, invoked as the command c.
runOfficial(c) ==
  /\ Begin(c)
  /\ Await(runOfficialLaunch(StartFrame, parentEnv, c.args), "running")

RunOfficial(args) ==
  /\ runOfficial(Cmd("runOfficial", UNDEF, FALSE, args, UNDEF, UNDEF))

runProvider(c, name, persist, args) ==
  /\ Begin(c)
  /\ IF getEndpointConfig(cfgFile, name) = NotFound
     THEN Exit(StartFrame, 1)
     ELSE LET endpoint == getEndpointConfig(cfgFile, name)
              token == runProviderToken(cfgFile, name)
          IN IF Truthy(token)
             THEN Await(runProviderLaunch(StartFrame, parentEnv, name, persist,
                                          args, endpoint, token), "running")
             ELSE Await(Event([StartFrame EXCEPT !.local.endpoint = endpoint],
                              "prompt"), "promptToken")

RunProvider(name, persist, args) ==
  /\ runProvider(Cmd("runProvider", name, persist, args, UNDEF, UNDEF),
                 name, persist, args)

\* The user answers runProvider's token prompt.
AnswerToken(raw) ==
  /\ pc = "promptToken"
  /\ LET token == trim(raw)
         f1 == runProviderSaveToken(CurFrame, cmd.provider, token)
     IN Await(runProviderLaunch(f1, parentEnv, cmd.provider, cmd.persist,
                                cmd.args, local.endpoint, token), "running")
  /\ UNCHANGED closeCode
  /\ Continue

restoreOfficial(c) ==
  /\ Begin(c)
  /\ LET f == restoreOfficialRun(StartFrame, parentEnv, c.args)
     IN IF Len(c.args) > 0 THEN Await(f, "running") ELSE Exit(f, 0)

RestoreOfficial(args) ==
  /\ restoreOfficial(Cmd("restoreOfficial", UNDEF, TRUE, args, UNDEF, UNDEF))

\* The child's 'close' event reaches waitForExit's listener.
ChildClose(code) ==
  /\ pc = "running"
  /\ closeCode' = code
  /\ LET f0 == Event(CurFrame, "close")
         f1 == CASE cmd.name = "runOfficial" -> runOfficialAfterExit(f0)
                 [] cmd.name = "runProvider" ->
                      runProviderAfterExit(f0, cmd.persist)
                 [] OTHER -> f0
     IN Exit(f1, waitForExit(code))
  /\ Continue

\* spawn fails (claude is not on PATH): the child emits 'error', nothing
\* listens for it, and the uncaught exception ends the tool.
SpawnError ==
  /\ pc = "running"
  /\ Commit(Event(CurFrame, "error"))
  /\ status' = 1
  /\ pc' = "crashed"
  /\ UNCHANGED closeCode
  /\ Continue

\* The CLI registers <name> and <endpoint> only.  A third operand is, by
\* the argument parser's default (which differs between its major versions),
\* either refused before the handler runs or handed to add() as an argument
\* it does not declare.
Add(name, url, tokenArg) ==
  /\ Begin(Cmd("add", name, FALSE, << >>, url, tokenArg))
  /\ \E refuseExcess \in BOOLEAN :
       IF tokenArg # UNDEF /\ refuseExcess
       THEN Exit(StartFrame, 1)
       ELSE IF addRejects(name, url)
            THEN Exit(StartFrame, 1)
            ELSE Await(Event(StartFrame, "prompt"), "addPromptToken")

AddAnswerToken(raw) ==
  /\ pc = "addPromptToken"
  /\ Await(Event([CurFrame EXCEPT !.local.addToken = trim(raw)], "prompt"),
           "addPromptModel")
  /\ UNCHANGED closeCode
  /\ Continue

AddAnswerModel(raw) ==
  /\ pc = "addPromptModel"
  /\ Exit(addStore(CurFrame, cmd.provider, cmd.url, local.addToken, trim(raw)),
          0)
  /\ UNCHANGED closeCode
  /\ Continue

Remove(name) ==
  /\ Begin(Cmd("remove", name, FALSE, << >>, UNDEF, UNDEF))
  /\ Exit(remove(StartFrame, name), removeStatus(cfgFile, name))

TokenSet(provider, tokenArg) ==
  /\ Begin(Cmd("tokenSet", provider, FALSE, << >>, UNDEF, tokenArg))
  /\ IF ~assertProviderExists(cfgFile, provider)
     THEN Exit(StartFrame, 1)
     ELSE IF Truthy(tokenArg)
          THEN Exit(tokenSetStore(StartFrame, provider, tokenArg), 0)
          ELSE Await(Event(StartFrame, "prompt"), "tokenSetPrompt")

TokenSetAnswer(raw) ==
  /\ pc = "tokenSetPrompt"
  /\ Exit(tokenSetStore(CurFrame, cmd.provider, trim(raw)), 0)
  /\ UNCHANGED closeCode
  /\ Continue

TokenClean(provider) ==
  /\ Begin(Cmd("tokenClean", provider, FALSE, << >>, UNDEF, UNDEF))
  /\ IF ~assertProviderExists(cfgFile, provider)
     THEN Exit(StartFrame, 1)
     ELSE Exit(tokenClean(StartFrame, provider), 0)

\* Variant: the proxy is switched on in config.json before the URL is asked
\* for.
ProxyOn_eager ==
  /\ Begin(Cmd("proxyOn", UNDEF, FALSE, << >>, UNDEF, UNDEF))
  /\ LET currentConfig == getProxyConfig(cfgFile)
     IN IF Truthy(currentConfig.url)
        THEN Exit(proxyOnStore(StartFrame, currentConfig, currentConfig.url), 0)
        ELSE Await(Event(CfgWrite([StartFrame EXCEPT
                                     !.local.currentConfig = currentConfig],
                                  "setProxyConfig",
                                  setProxyConfig(cfgFile, TRUE, UNDEF,
                                                 currentConfig.clearForOfficial)),
                         "prompt"),
                   "proxyPrompt")

ProxyOn ==
  /\ Begin(Cmd("proxyOn", UNDEF, FALSE, << >>, UNDEF, UNDEF))
  /\ LET currentConfig == getProxyConfig(cfgFile)
     IN IF Truthy(currentConfig.url)
        THEN Exit(proxyOnStore(StartFrame, currentConfig, currentConfig.url), 0)
        ELSE Await(Event([StartFrame EXCEPT
                            !.local.currentConfig = currentConfig], "prompt"),
                   "proxyPrompt")

\* The user answers proxyOn's address prompt.
ProxyOnAnswer(raw) ==
  /\ pc = "proxyPrompt"
  /\ Exit(proxyOnStore(CurFrame, local.currentConfig, trim(raw)), 0)
  /\ UNCHANGED closeCode
  /\ Continue

ProxyOff ==
  /\ Begin(Cmd("proxyOff", UNDEF, FALSE, << >>, UNDEF, UNDEF))
  /\ Exit(proxyOff(StartFrame), 0)

ProxyReset ==
  /\ Begin(Cmd("proxyReset", UNDEF, FALSE, << >>, UNDEF, UNDEF))
  /\ Exit(proxyReset(StartFrame), 0)

\* Variant: a handler of the signal writes the backup back before the
\* process ends.
Kill_restoring ==
  /\ pc \notin { "idle", "exited", "crashed", "killed" }
  /\ pc' = "killed"
  /\ status' = KILLSTATUS
  /\ hostFile' = IF local.needsRestore
                 THEN restoreClaudeSettings(local.backup)
                 ELSE hostFile
  /\ UNCHANGED << cfgFile, local, child, log, closeCode >>
  /\ Continue

\* The tool's process is terminated by a signal while it waits at a prompt
\* or for the child: no handler is installed, nothing more of it runs.
Kill ==
  /\ pc \notin { "idle", "exited", "crashed", "killed" }
  /\ pc' = "killed"
  /\ status' = KILLSTATUS
  /\ UNCHANGED << hostFile, cfgFile, local, child, log, closeCode >>
  /\ Continue

\* The operating system schedules the other invocation.
Swap ==
  /\ peer' = Slot(pc, cmd, local, child, log, status, closeCode, pre)
  /\ pc' = peer.pc
  /\ cmd' = peer.cmd
  /\ local' = peer.local
  /\ child' = peer.child
  /\ log' = peer.log
  /\ status' = peer.status
  /\ closeCode' = peer.closeCode
  /\ pre' = peer.pre
  /\ UNCHANGED << hostFile, cfgFile, parentEnv, prev, runs >>

Next ==
  \/ \E args \in ArgLists : RunOfficial(args)
  \/ \E name \in InputNames, persist \in BOOLEAN, args \in ArgLists :
       RunProvider(name, persist, args)
  \/ \E raw \in RawAnswers : AnswerToken(raw)
  \/ \E args \in ArgLists : RestoreOfficial(args)
  \/ \E code \in CloseCodes : ChildClose(code)
  \/ SpawnError
  \/ \E name \in InputNames, url \in UrlInputs : Add(name, url, UNDEF)
  \/ \E raw \in RawAnswers : AddAnswerToken(raw)
  \/ \E raw \in RawModelAnswers : AddAnswerModel(raw)
  \/ \E name \in InputNames : Remove(name)
  \/ \E name \in InputNames, tokenArg \in TokenArgs : TokenSet(name, tokenArg)
  \/ \E raw \in RawAnswers : TokenSetAnswer(raw)
  \/ \E name \in InputNames : TokenClean(name)

Spec == Init /\ [][Next]_vars

(***************************************************************************)
(* The launch commands alone, from every settings file.                    *)
(***************************************************************************)
InitLaunch ==
  /\ hostFile \in AllHostFiles
  /\ cfgFile \in AllCfgFiles
  /\ parentEnv \in ParentEnvs
  /\ runs = MaxRuns - 1
  /\ InitRest

NextLaunch ==
  \/ \E args \in ArgLists : RunOfficial(args)
  \/ \E name \in InputNames, persist \in BOOLEAN, args \in ArgLists :
       RunProvider(name, persist, args)
  \/ \E raw \in RawAnswers : AnswerToken(raw)
  \/ \E args \in ArgLists : RestoreOfficial(args)
  \/ \E code \in CloseCodes : ChildClose(code)
  \/ SpawnError

SpecLaunch == InitLaunch /\ [][NextLaunch]_vars

(***************************************************************************)
(* Every command that writes settings.json, from every settings file.      *)
(***************************************************************************)
NextSettings ==
  \/ NextLaunch
  \/ ProxyOn
  \/ \E raw \in RawProxyAnswers : ProxyOnAnswer(raw)
  \/ ProxyOff
  \/ ProxyReset

SpecSettings == InitLaunch /\ [][NextSettings]_vars

(***************************************************************************)
(* Provider launches over hand-edited files: custom endpoints that map all, *)
(* one or none of the model tiers, and settings whose keys are all empty.  *)
(***************************************************************************)
ModelMappings ==
  { Models("m-1", "m-1", "m-1"), Models("", "", ""),
    Models("h-1", UNDEF, UNDEF) }

\* Settings whose ANTHROPIC_* keys all hold the empty string.
BlankHostFiles ==
  { JsonFile(HostDocBlank(p, ks, ks)) :
      p \in { UNDEF, HostProxy },
      ks \in { { "ANTHROPIC_DEFAULT_HAIKU_MODEL" }, ANTHROPIC_ENV_KEYS } }

ProviderCfgFiles ==
  { JsonFile([DefaultConfig EXCEPT
                !.endpoints = << Endpoint("my", "https://my.example/api",
                                          "my-key", mo) >>,
                !.proxy = pr]) :
      mo \in ModelMappings, pr \in ProxyPolicies }

InitProvider ==
  /\ hostFile \in AllHostFiles \cup BlankHostFiles
  /\ cfgFile \in ProviderCfgFiles
  /\ parentEnv \in ParentEnvs
  /\ runs = MaxRuns - 1
  /\ InitRest

SpecProvider == InitProvider /\ [][NextLaunch]_vars

(***************************************************************************)
(* Launches only, one after the other, over a Launcher-Config that may     *)
(* already hold a custom endpoint.                                         *)
(***************************************************************************)
CustomEndpoint(tok) ==
  Endpoint("my", "https://my.example/api", tok, Models("m-1", "m-1", "m-1"))

RelaunchCfgFiles ==
  { AbsentFile(DefaultConfig) }
  \cup { JsonFile([DefaultConfig EXCEPT !.endpoints = << CustomEndpoint(tok) >>]) :
           tok \in { UNDEF, "", "my-key" } }

InitRelaunch ==
  /\ hostFile \in InitHostFiles
  /\ cfgFile \in RelaunchCfgFiles
  /\ parentEnv \in ParentEnvs
  /\ runs = 0
  /\ InitRest

SpecRelaunch == InitRelaunch /\ [][NextLaunch]_vars

(***************************************************************************)
(* The commands that manage endpoints and tokens, with every operand.      *)
(***************************************************************************)
InitEndpoints ==
  /\ hostFile = JsonFile(HostDoc(HostProxy, TRUE, ApiKeys))
  /\ cfgFile \in RelaunchCfgFiles
  /\ parentEnv \in ParentEnvs
  /\ runs = 0
  /\ InitRest

NextEndpoints ==
  \/ \E name \in AddNames, url \in UrlInputs \cup OtherUrlInputs,
        tokenArg \in TokenArgs : Add(name, url, tokenArg)
  \/ \E raw \in RawAnswers : AddAnswerToken(raw)
  \/ \E raw \in RawModelAnswers : AddAnswerModel(raw)
  \/ \E name \in AddNames : Remove(name)
  \/ \E name \in InputNames, tokenArg \in TokenArgs : TokenSet(name, tokenArg)
  \/ \E raw \in RawAnswers : TokenSetAnswer(raw)
  \/ \E name \in InputNames : TokenClean(name)

SpecEndpoints == InitEndpoints /\ [][NextEndpoints]_vars

\* Two invocations of the tool at the same time on the same two files, each
\* an operating-system process of its own. Each step of an invocation up to
\* its next await is taken whole; the other one runs between the steps.
OriginHost == JsonFile(HostDoc(HostProxy, TRUE, ANTHROPIC_ENV_KEYS))

InitConcurrent ==
  /\ hostFile = OriginHost
  /\ cfgFile \in AllCfgFiles
  /\ parentEnv = [NoVars EXCEPT !["PATH"] = "/usr/bin"]
  /\ runs = MaxRuns - 2
  /\ InitRest

NextConcurrent ==
  \/ NextLaunch
  \/ Swap

SpecConcurrent == InitConcurrent /\ [][NextConcurrent]_vars

\* storage.ts across processes. Each mutation reads config.json with
\* readFileSync and writes the whole patched document with writeFileSync;
\* nothing locks the file between the two calls, so the other process may run
\* there. The document an invocation has read is kept in local.config and
\* the write is computed from it, whatever the file holds by then.
FromSnapshot(f, config) == [f EXCEPT !.cfg = writeConfig(config)]

\* `token set <provider> <token>` up to the readConfig inside saveToken or
\* setCustomEndpointToken.
TokenSetRead(provider, tokenArg) ==
  /\ Begin(Cmd("tokenSet", provider, FALSE, << >>, UNDEF, tokenArg))
  /\ IF ~assertProviderExists(cfgFile, provider)
     THEN Exit(StartFrame, 1)
     ELSE Await([StartFrame EXCEPT !.local.config = readConfig(cfgFile)],
                "tokenSetRead")

\* The rest of it: the write of the patched document.
TokenSetWrite ==
  /\ pc = "tokenSetRead"
  /\ Exit(tokenSetStore(FromSnapshot(CurFrame, local.config), cmd.provider,
                        cmd.tokenArg), 0)
  /\ UNCHANGED closeCode
  /\ Continue

\* A provider launch up to the readConfig inside setLastUsed.
RunProviderRead(name, persist, args) ==
  /\ Begin(Cmd("runProvider", name, persist, args, UNDEF, UNDEF))
  /\ IF getEndpointConfig(cfgFile, name) = NotFound
     THEN Exit(StartFrame, 1)
     ELSE LET endpoint == getEndpointConfig(cfgFile, name)
              token == runProviderToken(cfgFile, name)
          IN IF Truthy(token)
             THEN Await([StartFrame EXCEPT
                           !.local.endpoint = endpoint,
                           !.local.token = token,
                           !.local.config = readConfig(cfgFile)],
                        "setLastUsedRead")
             ELSE Await(Event([StartFrame EXCEPT !.local.endpoint = endpoint],
                              "prompt"), "promptToken")

\* The rest of it up to the await of the child's exit.
SetLastUsedWrite ==
  /\ pc = "setLastUsedRead"
  /\ Await(runProviderLaunch(FromSnapshot(CurFrame, local.config), parentEnv,
                             cmd.provider, cmd.persist, cmd.args,
                             local.endpoint, local.token), "running")
  /\ UNCHANGED closeCode
  /\ Continue

StoreCfgFiles ==
  { AbsentFile(DefaultConfig),
    JsonFile([DefaultConfig EXCEPT
                !.endpoints = << CustomEndpoint("my-key") >>,
                !.tokens["glm"] = "glm-key",
                !.lastUsed = "my"]) }

InitStore ==
  /\ hostFile = OriginHost
  /\ cfgFile \in StoreCfgFiles
  /\ parentEnv = [NoVars EXCEPT !["PATH"] = "/usr/bin"]
  /\ runs = MaxRuns - 2
  /\ InitRest

NextStore ==
  \/ \E provider \in InputNames \cup BuiltinNames : TokenSetRead(provider, "tok-2")
  \/ TokenSetWrite
  \/ \E name \in InputNames, persist \in BOOLEAN :
       RunProviderRead(name, persist, << >>)
  \/ SetLastUsedWrite
  \/ \E raw \in RawAnswers : AnswerToken(raw)
  \/ \E code \in CloseCodes : ChildClose(code)
  \/ Swap

SpecStore == InitStore /\ [][NextStore]_vars

\* An invocation may be killed, and other invocations follow it. The killed
\* process is kept aside (with its backup, which died with it) while the
\* later ones run.
InitKill ==
  /\ hostFile \in InitHostFiles
  /\ cfgFile \in InitCfgFiles
  /\ parentEnv = [NoVars EXCEPT !["PATH"] = "/usr/bin"]
  /\ runs = MaxRuns - 2
  /\ InitRest

NextKill ==
  \/ NextSettings
  \/ Kill
  \/ pc = "killed" /\ peer = NoPeer /\ Swap

SpecKill == InitKill /\ [][NextKill]_vars

\* The commands that prompt, each of which may be killed while it waits for
\* the answer (or for the child).
InitPrompts ==
  /\ hostFile \in InitHostFiles
  /\ cfgFile \in RelaunchCfgFiles \cup InitCfgFiles
  /\ parentEnv = [NoVars EXCEPT !["PATH"] = "/usr/bin"]
  /\ runs = MaxRuns - 1
  /\ InitRest

NextPrompts ==
  \/ \E name \in InputNames, persist \in BOOLEAN, args \in ArgLists :
       RunProvider(name, persist, args)
  \/ \E raw \in RawAnswers : AnswerToken(raw)
  \/ \E code \in CloseCodes : ChildClose(code)
  \/ \E name \in InputNames, url \in UrlInputs : Add(name, url, UNDEF)
  \/ \E raw \in RawAnswers : AddAnswerToken(raw)
  \/ \E raw \in RawModelAnswers : AddAnswerModel(raw)
  \/ \E name \in InputNames, tokenArg \in TokenArgs : TokenSet(name, tokenArg)
  \/ \E raw \in RawAnswers : TokenSetAnswer(raw)
  \/ ProxyOn
  \/ \E raw \in RawProxyAnswers : ProxyOnAnswer(raw)
  \/ Kill

SpecPrompts == InitPrompts /\ [][NextPrompts]_vars

\* Launches and token commands, one after the other, with a custom endpoint
\* in config.json.
InitTokens ==
  /\ hostFile = OriginHost
  /\ cfgFile \in RelaunchCfgFiles \cup StoreCfgFiles
  /\ parentEnv = [NoVars EXCEPT !["PATH"] = "/usr/bin"]
  /\ runs = MaxRuns - 2
  /\ InitRest

NextTokens ==
  \/ \E name \in InputNames, persist \in BOOLEAN :
       RunProvider(name, persist, << >>)
  \/ \E raw \in RawAnswers : AnswerToken(raw)
  \/ \E code \in CloseCodes : ChildClose(code)
  \/ \E name \in InputNames, tokenArg \in TokenArgs : TokenSet(name, tokenArg)
  \/ \E raw \in RawAnswers : TokenSetAnswer(raw)
  \/ \E name \in InputNames : TokenClean(name)

SpecTokens == InitTokens /\ [][NextTokens]_vars

\* Proxy commands and launches, one after the other, starting where neither
\* file exists yet.
InitProxy ==
  /\ hostFile = AbsentFile(EmptySettings)
  /\ cfgFile = AbsentFile(DefaultConfig)
  /\ parentEnv \in ParentEnvs
  /\ runs = 0
  /\ InitRest

SpecProxy == InitProxy /\ [][NextSettings]_vars

\* Provider launches by names that differ from known ones in case only, and
\* with a config.json (edited by hand) whose custom list holds a built-in
\* name.
ResolveNames == { "glm", "GLM", "my", "My", "nope" }

ShadowEndpoint ==
  Endpoint("glm", "https://shadow.example/api", "shadow-key",
           Models("s-1", "s-1", "s-1"))

ResolveCfgFiles ==
  { AbsentFile(DefaultConfig),
    JsonFile([DefaultConfig EXCEPT
                !.endpoints = << CustomEndpoint("my-key") >>]),
    JsonFile([DefaultConfig EXCEPT
                !.endpoints = << ShadowEndpoint, CustomEndpoint(UNDEF) >>,
                !.tokens["glm"] = "glm-key"]) }

InitResolve ==
  /\ hostFile \in { AbsentFile(EmptySettings), OriginHost }
  /\ cfgFile \in ResolveCfgFiles
  /\ parentEnv = [NoVars EXCEPT !["PATH"] = "/usr/bin"]
  /\ runs = MaxRuns - 1
  /\ InitRest

NextResolve ==
  \/ \E name \in ResolveNames, persist \in BOOLEAN, args \in ArgLists :
       RunProvider(name, persist, args)
  \/ \E raw \in RawAnswers : AnswerToken(raw)
  \/ \E code \in CloseCodes : ChildClose(code)

SpecResolve == InitResolve /\ [][NextResolve]_vars

\* add and remove, one after the other, from an empty custom list and from
\* lists that earlier add commands have built.
OtherEndpoint ==
  Endpoint("nope", "https://other.example/api", "other-key",
           Models("o-1", "o-1", "o-1"))

BuiltCfgFiles ==
  { AbsentFile(DefaultConfig),
    JsonFile(DefaultConfig),
    JsonFile([DefaultConfig EXCEPT
                !.endpoints = << CustomEndpoint("my-key"), OtherEndpoint >>]),
    JsonFile([DefaultConfig EXCEPT
                !.endpoints = << OtherEndpoint, CustomEndpoint("my-key") >>]) }

InitAddRemove ==
  /\ hostFile = OriginHost
  /\ cfgFile \in BuiltCfgFiles
  /\ parentEnv = [NoVars EXCEPT !["PATH"] = "/usr/bin"]
  /\ runs = 0
  /\ InitRest

NextAddRemove ==
  \/ \E name \in InputNames, url \in UrlInputs : Add(name, url, UNDEF)
  \/ \E raw \in RawAnswers : AddAnswerToken(raw)
  \/ \E raw \in RawModelAnswers : AddAnswerModel(raw)
  \/ \E name \in InputNames : Remove(name)

SpecAddRemove == InitAddRemove /\ [][NextAddRemove]_vars

\* add, remove and the token commands on a config.json in which every field
\* holds something.
FullCfgFiles ==
  { AbsentFile(DefaultConfig),
    JsonFile([DefaultConfig EXCEPT
                !.endpoints = << CustomEndpoint("my-key"), OtherEndpoint >>,
                !.tokens["glm"] = "glm-key",
                !.tokens["my"] = "tok-1",
                !.lastUsed = "my",
                !.proxy = ProxyConfig(TRUE, "http://proxy:8891", JTRUE)]) }

InitFrame ==
  /\ hostFile = OriginHost
  /\ cfgFile \in FullCfgFiles
  /\ parentEnv = [NoVars EXCEPT !["PATH"] = "/usr/bin"]
  /\ runs = 0
  /\ InitRest

NextFrame ==
  \/ \E name \in InputNames, url \in UrlInputs : Add(name, url, UNDEF)
  \/ \E raw \in RawAnswers : AddAnswerToken(raw)
  \/ \E raw \in RawModelAnswers : AddAnswerModel(raw)
  \/ \E name \in InputNames : Remove(name)
  \/ \E name \in InputNames, tokenArg \in TokenArgs : TokenSet(name, tokenArg)
  \/ \E raw \in RawAnswers : TokenSetAnswer(raw)
  \/ \E name \in InputNames : TokenClean(name)

SpecFrame == InitFrame /\ [][NextFrame]_vars

(***************************************************************************)
(* The command line: process.argv, Commander's parse of it, and the root   *)
(* command's action.                                                       *)
(***************************************************************************)

\* The longest list of user arguments that is enumerated.
MaxArgs == 3

\* The words a user argument is drawn from: a provider name, the --claude
\* flag, the separator, a lone dash, an option the program does not
\* declare, and the declared --version option.
ArgWords == { "glm", "--claude", "--", "-", "-x", "--version" }

RECURSIVE WordLists(_)
WordLists(n) ==
  IF n = 0 THEN { << >> }
  ELSE LET shorter == WordLists(n - 1)
       IN shorter \cup { Append(l, w) : l \in { s \in shorter : Len(s) = n - 1 },
                                        w \in ArgWords }

\* process.argv: the interpreter, the script, then the user's arguments.
Argvs == { << "node", "runcc" >> \o l : l \in WordLists(MaxArgs) }

\* Array.prototype.slice(start): the elements from the 0-based index start.
slice(arr, start) == SubSeq(arr, start + 1, Len(arr))

\* Array.prototype.slice(0, end)
sliceTo(arr, end) == SubSeq(arr, 1, end)

\* Array.prototype.indexOf: the 0-based index of the first match, or -1.
indexOf(arr, x) ==
  IF \E i \in 1..Len(arr) : arr[i] = x
  THEN (CHOOSE i \in 1..Len(arr) :
          arr[i] = x /\ \A j \in 1..(i - 1) : arr[j] # x) - 1
  ELSE -1

\* arg.startsWith('-'), on the words of ArgWords.
startsWithDash(arg) == arg \in { "--claude", "--", "-", "-x", "--version" }

extractPassthroughArgs(argv) ==
  LET userArgs == slice(argv, 2)
      dashIndex == indexOf(userArgs, "--")
  IN IF dashIndex = -1 THEN << >> ELSE slice(userArgs, dashIndex + 1)

\* validateDashPosition without the '--claude' exception.
validateDashPosition_noClaude(argv) ==
  LET userArgs == slice(argv, 2)
      dashIndex == indexOf(userArgs, "--")
  IN IF dashIndex = -1 \/ dashIndex = 0 THEN "ok"
     ELSE LET beforeDash == sliceTo(userArgs, dashIndex)
              hasValidPrefix ==
                \E i \in 1..Len(beforeDash) : ~startsWithDash(beforeDash[i])
          IN IF ~hasValidPrefix THEN "PassthroughArgsError" ELSE "ok"

\* "ok" when the function returns, "PassthroughArgsError" when it throws.
validateDashPosition(argv) ==
  LET userArgs == slice(argv, 2)
      dashIndex == indexOf(userArgs, "--")
  IN IF dashIndex = -1 \/ dashIndex = 0 THEN "ok"
     ELSE LET beforeDash == sliceTo(userArgs, dashIndex)
              hasValidPrefix ==
                \E i \in 1..Len(beforeDash) :
                  ~startsWithDash(beforeDash[i]) \/ beforeDash[i] = "--claude"
          IN IF ~hasValidPrefix THEN "PassthroughArgsError" ELSE "ok"

\* Commander's maybeOption: a dash followed by at least one character.
maybeOption(arg) == startsWithDash(arg) /\ arg # "-"

\* The elements of arr that satisfy keep, in order.
RECURSIVE filter(_, _)
filter(arr, keep) ==
  IF arr = << >> THEN << >>
  ELSE (IF arr[1] \in keep THEN << arr[1] >> ELSE << >>)
       \o filter(Tail(arr), keep)

\* program.parse on the root command, which declares [provider], --claude
\* and .version() and accepts excess arguments.  Options are read up to the
\* first '--'; everything after it is an operand.  --version prints and
\* exits 0 as soon as it is read; an option that is not declared is
\* reported, with exit status 1, once the options have been read.  The first
\* operand is the provider.  No word of ArgWords names a subcommand.
commanderParse(args) ==
  LET dashIndex == indexOf(args, "--")
      options == IF dashIndex = -1 THEN args ELSE sliceTo(args, dashIndex)
      literal == IF dashIndex = -1 THEN << >> ELSE slice(args, dashIndex + 1)
      words == { options[i] : i \in 1..Len(options) }
      operands == filter(options, { w \in words : ~maybeOption(w) }) \o literal
  IN CASE "--version" \in words ->
            [outcome |-> "version", provider |-> UNDEF, claude |-> FALSE]
       [] "--version" \notin words
            /\ \E w \in words : maybeOption(w) /\ w # "--claude" ->
            [outcome |-> "unknownOption", provider |-> UNDEF, claude |-> FALSE]
       [] OTHER ->
            [outcome |-> "action",
             provider |-> IF Len(operands) > 0 THEN operands[1] ELSE UNDEF,
             claude |-> "--claude" \in words]

\* The arguments the entry script hands to program.parse: none when the
\* first user argument is '--', process.argv's otherwise.
parseArgs(argv) ==
  LET userArgs == slice(argv, 2)
  IN IF Len(userArgs) > 0 /\ userArgs[1] = "--" THEN << >> ELSE userArgs

\* The command the shell started, before any mode is selected.
MainCmd(argv) == [Cmd("main", UNDEF, FALSE, << >>, UNDEF, UNDEF)
                    EXCEPT !.argv = argv]

\* The root command's action handler.
mainAction(argv, provider, claude) ==
  IF validateDashPosition(argv) = "PassthroughArgsError"
  THEN Begin(MainCmd(argv)) /\ Exit(Event(StartFrame, "usage"), 1)
  ELSE LET passthroughArgs == extractPassthroughArgs(argv)
       IN IF ~Truthy(provider)
          THEN IF claude
               THEN restoreOfficial([MainCmd(argv) EXCEPT
                      !.name = "restoreOfficial", !.persist = TRUE,
                      !.args = passthroughArgs])
               ELSE runOfficial([MainCmd(argv) EXCEPT
                      !.name = "runOfficial", !.args = passthroughArgs])
          ELSE runProvider([MainCmd(argv) EXCEPT
                 !.name = "runProvider", !.provider = provider,
                 !.persist = claude, !.args = passthroughArgs],
                 provider, claude, passthroughArgs)

\* The tool is started with the command line argv.  (The first conjunct is
\* Begin's guard, tested before the command line is parsed.)
Main(argv) ==
  /\ runs < MaxRuns
  /\ LET parsed == commanderParse(parseArgs(argv))
     IN CASE parsed.outcome = "version" ->
               Begin(MainCmd(argv)) /\ Exit(Event(StartFrame, "version"), 0)
          [] parsed.outcome = "unknownOption" ->
               Begin(MainCmd(argv))
               /\ Exit(Event(StartFrame, "unknownOption"), 1)
          [] OTHER -> mainAction(argv, parsed.provider, parsed.claude)

\* Command lines, given once each, with and without a saved glm token.
ArgvCfgFiles ==
  { AbsentFile(DefaultConfig),
    JsonFile([DefaultConfig EXCEPT !.tokens["glm"] = "glm-key"]) }

InitArgv ==
  /\ hostFile \in { AbsentFile(EmptySettings), OriginHost }
  /\ cfgFile \in ArgvCfgFiles
  /\ parentEnv = [NoVars EXCEPT !["PATH"] = "/usr/bin"]
  /\ runs = MaxRuns - 1
  /\ InitRest

NextArgv ==
  \/ \E argv \in Argvs : Main(argv)
  \/ \E raw \in RawAnswers : AnswerToken(raw)
  \/ \E code \in CloseCodes : ChildClose(code)

SpecArgv == InitArgv /\ [][NextArgv]_vars

(***************************************************************************)
(* Properties.                                                             *)
(***************************************************************************)
HasEvent(lg, events) == \E i \in DOMAIN lg : lg[i] \in events

\* The current (or last) invocation is a temporary-mode launch.
TempMode ==
  \/ cmd.name = "runOfficial"
  \/ cmd.name = "runProvider" /\ ~cmd.persist

\* The invocation ended after the child's exit code was observed.
Completed == pc = "exited" /\ closeCode # NOCLOSE

PreSettings == readClaudeSettings(pre.host)

\* C1: after a temporary-mode launch (runOfficial, or runProvider without
\* --claude) that ran to completion with any exit code of the child,
\* settings.json holds a document deeply equal to the one before the launch.
C1_RestorationIdempotence ==
  (TempMode /\ Completed) => readClaudeSettings(hostFile) = PreSettings

C1_Witness ==
  /\ TempMode /\ Completed
  /\ closeCode = 2
  /\ HasEvent(log, { "writeClaudeSettings" })
  /\ HasEvent(log, { "restoreClaudeSettings" })
  /\ PreSettings.env["ANTHROPIC_BASE_URL"] = "https://old"
  /\ PreSettings.env["OTHER_KEY"] # UNDEF

\* C2: when a temporary-mode launch fails at spawn level after it has
\* mutated settings.json, the pre-launch document is still written back.
C2_RestoreOnSpawnFailure ==
  (TempMode /\ pc = "crashed") => readClaudeSettings(hostFile) = PreSettings

\* C3: after runProvider(p, persist) completes, settings.json has
\* env.ANTHROPIC_BASE_URL = p's base URL and env.ANTHROPIC_AUTH_TOKEN = the
\* token (stored, or entered at the prompt), whatever the document was before
\* and whatever the exit code; nothing is written to it after the exit.
C3_PersistPermanence ==
  (cmd.name = "runProvider" /\ cmd.persist /\ Completed) =>
    LET p == getEndpointConfig(pre.cfg, cmd.provider)
        t == IF HasEvent(log, { "prompt" }) THEN local.answer
             ELSE runProviderToken(pre.cfg, cmd.provider)
        env == readClaudeSettings(hostFile).env
    IN /\ env["ANTHROPIC_BASE_URL"] = p.endpoint
       /\ env["ANTHROPIC_AUTH_TOKEN"] = t
       /\ \A i, j \in DOMAIN log :
            (log[i] = "close" /\ i < j) => log[j] \notin HostWriteEvents

C3_Witness ==
  /\ cmd.name = "runProvider" /\ cmd.persist /\ Completed
  /\ closeCode = 2
  /\ PreSettings.env["ANTHROPIC_BASE_URL"] = "https://old"
  /\ local.needsRestore
  /\ readClaudeSettings(hostFile).env["ANTHROPIC_BASE_URL"]
       = "https://open.bigmodel.cn/api/anthropic"

NoAnthropicKeys(settings) ==
  \A k \in ANTHROPIC_ENV_KEYS : settings.env[k] = UNDEF

NoOpCase ==
  /\ NoAnthropicKeys(PreSettings)
  /\ \/ getProxyConfig(pre.cfg).clearForOfficial # JTRUE
     \/ PreSettings.proxy = UNDEF

\* C4: a temporary-mode launch from a settings.json without any
\* env.ANTHROPIC_* key, with clearForOfficial off or no proxy value, writes
\* settings.json zero times.
C4_NoOpSkip ==
  (TempMode /\ NoOpCase) =>
    (~HasEvent(log, HostWriteEvents) /\ hostFile = pre.host)

C4_Witness ==
  /\ TempMode /\ NoOpCase /\ Completed
  /\ cmd.name = "runOfficial"
  /\ PreSettings.proxy # UNDEF
  /\ PreSettings.env["OTHER_KEY"] # UNDEF

\* C5: the environment an Official-mode launch hands to spawn contains
\* neither ANTHROPIC_BASE_URL nor ANTHROPIC_AUTH_TOKEN, for every settings.json
\* and every environment of the tool's own process.
C5_OfficialEnvExclusive ==
  (cmd.name = "runOfficial" /\ HasEvent(log, { "spawn" })) =>
    /\ child.env["ANTHROPIC_BASE_URL"] = UNDEF
    /\ child.env["ANTHROPIC_AUTH_TOKEN"] = UNDEF

MutationEvents == HostWriteEvents \ { "restoreClaudeSettings" }

\* C6: every write that applies a mode's mutation of settings.json comes
\* before spawn, the restore write comes only after the child's exit was
\* observed, and nothing is written to settings.json between spawn and that
\* exit.
C6_WriteOrdering ==
  \A j \in DOMAIN log :
    /\ log[j] \in MutationEvents => \A i \in 1..(j - 1) : log[i] # "spawn"
    /\ log[j] = "restoreClaudeSettings" =>
         \E k \in 1..(j - 1) : log[k] = "close"
    /\ log[j] \in HostWriteEvents =>
         \A i \in 1..(j - 1) :
           log[i] = "spawn" => \E k \in (i + 1)..(j - 1) : log[k] = "close"

C6_Witness ==
  /\ Completed
  /\ \E i, j, k, l \in DOMAIN log :
       /\ i < j /\ j < k /\ k < l
       /\ log[i] \in MutationEvents
       /\ log[j] = "spawn"
       /\ log[k] = "close"
       /\ log[l] = "restoreClaudeSettings"

\* The invocation before this one was a provider-mode launch of the same
\* provider, it prompted, and the (trimmed) answer was prev.answer.
SecondLaunchAfterPrompt ==
  /\ prev.name = "runProvider"
  /\ prev.answer # UNDEF
  /\ cmd.name = "runProvider"
  /\ cmd.provider = prev.provider

\* C7 (as claimed): two consecutive provider-mode launches of a provider
\* without a stored token prompt exactly once in total, whatever string is
\* entered: the second launch does not prompt.
C7_PromptOnceAnyAnswer ==
  SecondLaunchAfterPrompt => ~HasEvent(log, { "prompt" })

\* C7 (amended): two consecutive provider-mode launches of a provider without
\* a stored token prompt exactly once in total when the answer is non-empty
\* after trimming: the second launch reuses the saved token without prompting.
C7_PromptOnceNonEmptyAnswer ==
  (SecondLaunchAfterPrompt /\ prev.answer # "") =>
    (~HasEvent(log, { "prompt" }) /\ pc # "promptToken")

C7_Witness ==
  /\ SecondLaunchAfterPrompt
  /\ prev.answer = "tok-1"
  /\ cmd.provider = "my"
  /\ Completed
  /\ local.token = "tok-1"

\* C8: every key of Launcher-Config.tokens is a built-in provider name.
C8_TokensOnlyBuiltin ==
  \A p \in ProviderNames :
    readConfig(cfgFile).tokens[p] # UNDEF => p \in { "glm", "deepseek", "minimax" }

UnknownProvider ==
  /\ cmd.name = "runProvider"
  /\ cmd.provider \notin { "glm", "deepseek", "minimax" }
  /\ \A i \in DOMAIN readConfig(pre.cfg).endpoints :
       readConfig(pre.cfg).endpoints[i].name # cmd.provider

\* C9: runProvider(name) for a name that is neither built-in nor a custom
\* endpoint exits with status 1, without spawning, prompting, or writing
\* either file.
C9_UnknownProviderExits ==
  UnknownProvider =>
    /\ pc = "exited"
    /\ status = 1
    /\ log = << "exit" >>
    /\ child = NoChild
    /\ hostFile = pre.host
    /\ cfgFile = pre.cfg

C9_Witness ==
  /\ UnknownProvider
  /\ cmd.provider = "nope"
  /\ cmd.persist
  /\ status = 1
  /\ hasAnthropicEnv(PreSettings)

\* C10: in every launch mode the tool exits with the exit code the child's
\* 'close' event reported, and with 0 when the event carried no code.
C10_ExitCodePropagated ==
  Completed => status = (IF closeCode = NULLCODE THEN 0 ELSE closeCode)

C10_Witness ==
  /\ Completed
  /\ cmd.name = "restoreOfficial"
  /\ closeCode = 2
  /\ status = 2

\* What restoreOfficial's removal must have done to settings.json.
RemovalEffect ==
  LET now == readClaudeSettings(hostFile)
  IN /\ hostFile.kind = "json"
     /\ NoAnthropicKeys(now)
     /\ now.proxy = PreSettings.proxy
     /\ now.apiUrl = PreSettings.apiUrl
     /\ now.env["OTHER_KEY"] = PreSettings.env["OTHER_KEY"]
     /\ removeThirdPartyApi(hostFile) = hostFile

\* C11 (as claimed): restoreOfficial removes every env.ANTHROPIC_* key from
\* settings.json and persists the result, leaving proxy and every other env
\* key unchanged; applying it again changes nothing; and when no such key was
\* present the document is the one that was there before.
C11_RemovalKeepsDocument ==
  cmd.name = "restoreOfficial" =>
    /\ RemovalEffect
    /\ NoAnthropicKeys(PreSettings) => readClaudeSettings(hostFile) = PreSettings

\* C11 (amended): as above, except that when no such key was present the
\* document is as before up to an env object without keys, which is dropped.
C11_RemovalKeepsDocumentButEmptyEnv ==
  cmd.name = "restoreOfficial" =>
    /\ RemovalEffect
    /\ NoAnthropicKeys(PreSettings) =>
         readClaudeSettings(hostFile) =
           [PreSettings EXCEPT !.hasEnv = ~EnvIsEmpty(PreSettings.env)]

C11_Witness ==
  /\ cmd.name = "restoreOfficial"
  /\ pc = "exited"
  /\ \A k \in SettingsEnvKeys : PreSettings.env[k] # UNDEF
  /\ PreSettings.proxy = HostProxy
  /\ readClaudeSettings(hostFile).env["OTHER_KEY"] = "1"
  /\ readClaudeSettings(hostFile).hasEnv

\* C12: restoreOfficial spawns the child exactly when passthrough arguments
\* were given, and only after removeThirdPartyApi has written settings.json;
\* the spawned environment differs from the tool's own at most in the four
\* proxy variables and in no ANTHROPIC_* key; without passthrough arguments it
\* ends with status 0 and nothing is spawned.
C12_LaunchIffPassthrough ==
  cmd.name = "restoreOfficial" =>
    /\ HasEvent(log, { "spawn" }) <=> Len(cmd.args) > 0
    /\ \A j \in DOMAIN log :
         log[j] = "spawn" =>
           \E i \in 1..(j - 1) : log[i] = "removeThirdPartyApi"
    /\ HasEvent(log, { "spawn" }) =>
         /\ child.args = cmd.args
         /\ \A k \in LaunchEnvKeys :
              child.env[k] # parentEnv[k] => k \in ProxyVars
         /\ \A k \in ANTHROPIC_ENV_KEYS : child.env[k] = parentEnv[k]
    /\ Len(cmd.args) = 0 =>
         (pc = "exited" /\ status = 0 /\ child = NoChild)

C12_Witness ==
  /\ cmd.name = "restoreOfficial"
  /\ Len(cmd.args) > 0
  /\ pc = "running"
  /\ PreSettings.proxy = HostProxy
  /\ PreSettings.env["ANTHROPIC_BASE_URL"] = "https://old"
  /\ log = << "removeThirdPartyApi", "spawn" >>

\* C13: add with a built-in provider name, and remove with a built-in
\* provider name, exit with status 1 at once: nothing is prompted for and
\* config.json is not written.
C13_BuiltinNamesProtected ==
  (cmd.name \in { "add", "remove" }
     /\ cmd.provider \in { "glm", "deepseek", "minimax" }) =>
    /\ pc = "exited"
    /\ status = 1
    /\ log = << "exit" >>
    /\ cfgFile = pre.cfg

C13_Witness ==
  /\ cmd.name = "add"
  /\ cmd.provider = "deepseek"
  /\ cmd.url = "https://my.example/api"
  /\ status = 1
  /\ pre.cfg.kind = "json"
  /\ prev.name = "remove"
  /\ prev.provider = "minimax"

\* The name given to remove is neither built-in nor a custom endpoint.
RemoveUnknown ==
  /\ cmd.name = "remove"
  /\ cmd.provider \notin { "glm", "deepseek", "minimax" }
  /\ \A i \in DOMAIN readConfig(pre.cfg).endpoints :
       readConfig(pre.cfg).endpoints[i].name # cmd.provider

\* C14: remove of a name that is not built-in and not among the custom
\* endpoints exits with status 1 and never writes config.json: the file is
\* as it was.
C14_RemoveUnknownNoWrite ==
  RemoveUnknown =>
    /\ pc = "exited"
    /\ status = 1
    /\ ~HasEvent(log, CfgWriteEvents)
    /\ cfgFile = pre.cfg

C14_Witness ==
  /\ RemoveUnknown
  /\ cmd.provider = "nope"
  /\ status = 1
  /\ Len(readConfig(cfgFile).endpoints) = 1
  /\ readConfig(cfgFile).endpoints[1].name = "my"

\* A provider-mode invocation that reached spawn.
ProviderLaunched == cmd.name = "runProvider" /\ HasEvent(log, { "spawn" })

LastUsed == readConfig(cfgFile).lastUsed

\* The launch of a provider without a stored token, after the prompt returned
\* local.answer: the child gets the provider's base URL and that token, and
\* config.json holds the token under the provider's name.
PromptedLaunchEffect ==
  (ProviderLaunched /\ ~Truthy(runProviderToken(pre.cfg, cmd.provider))) =>
    /\ HasEvent(log, { "prompt" })
    /\ child.env["ANTHROPIC_BASE_URL"]
         = getEndpointConfig(pre.cfg, cmd.provider).endpoint
    /\ child.env["ANTHROPIC_AUTH_TOKEN"] = local.answer
    /\ readConfig(cfgFile).tokens[cmd.provider] = local.answer

\* C15: after a provider-mode launch of p that had no stored token and was
\* given t at the prompt, the child's ANTHROPIC_BASE_URL is p's base URL, its
\* ANTHROPIC_AUTH_TOKEN is t, config.json stores t for p and lastUsed is p;
\* every provider-mode launch sets lastUsed to its provider and no other step
\* of any command changes lastUsed.
C15_PromptedLaunchAndLastUsed ==
  [][ /\ PromptedLaunchEffect'
      /\ ProviderLaunched' => LastUsed' = cmd'.provider
      /\ ~ProviderLaunched' => LastUsed' = LastUsed ]_vars

C15_Witness ==
  /\ ProviderLaunched
  /\ Completed
  /\ prev.name = "add"
  /\ cmd.provider = "my"
  /\ ~Truthy(runProviderToken(pre.cfg, "my"))
  /\ local.answer = "tok-1"
  /\ child.env["ANTHROPIC_BASE_URL"] = "https://my.example/api"
  /\ LastUsed = "my"

\* The endpoint operands of this model that are HTTP or HTTPS URLs.
IsHttpUrl(s) == s \in { "https://my.example/api" }

\* C16: add with an endpoint that is not a valid HTTP or HTTPS URL (an
\* unparseable string, the empty string, a URL of another scheme such as
\* ftp://) exits with status 1 before any prompt and without writing
\* config.json.
C16_NonHttpUrlRejected ==
  (cmd.name = "add" /\ ~IsHttpUrl(cmd.url)) =>
    /\ pc = "exited"
    /\ status = 1
    /\ log = << "exit" >>
    /\ cfgFile = pre.cfg

\* C17: add with a token given as third operand stores the descriptor with
\* that token, and never prompts for a token.
C17_AddTokenOperandStored ==
  (/\ cmd.name = "add"
   /\ Truthy(cmd.tokenArg)
   /\ IsHttpUrl(cmd.url)
   /\ cmd.provider \notin { "glm", "deepseek", "minimax" }) =>
    /\ pc # "addPromptToken"
    /\ pc = "exited" =>
         \E i \in DOMAIN readConfig(cfgFile).endpoints :
           /\ readConfig(cfgFile).endpoints[i].name = cmd.provider
           /\ readConfig(cfgFile).endpoints[i].token = cmd.tokenArg

\* C18: in Official mode, while the child runs, settings.json holds none of
\* the five env.ANTHROPIC_* keys, whatever subset of them it held before.
C18_OfficialDiskCleared ==
  (cmd.name = "runOfficial" /\ pc = "running") =>
    NoAnthropicKeys(readClaudeSettings(hostFile))

\* C19: in Provider temporary mode, while the child runs, settings.json holds
\* none of the env.ANTHROPIC_* keys the pre-launch document held.
C19_ProviderDiskCleared ==
  (cmd.name = "runProvider" /\ ~cmd.persist /\ pc = "running") =>
    \A k \in ANTHROPIC_ENV_KEYS :
      PreSettings.env[k] # UNDEF => readClaudeSettings(hostFile).env[k] = UNDEF

\* C20: no command changes or drops a non-ANTHROPIC env key or another
\* top-level field of settings.json; runProvider (temporary or persistent) and
\* restoreOfficial never change proxy; proxy on, off and reset never change
\* env.
C20_FramePreserved ==
  LET now == readClaudeSettings(hostFile)
  IN /\ now.env["OTHER_KEY"] = PreSettings.env["OTHER_KEY"]
     /\ now.apiUrl = PreSettings.apiUrl
     /\ cmd.name \in { "runProvider", "restoreOfficial" } =>
          now.proxy = PreSettings.proxy
     /\ cmd.name \in { "proxyOn", "proxyOff", "proxyReset" } =>
          (now.env = PreSettings.env /\ now.hasEnv = PreSettings.hasEnv)

C20_Witness ==
  /\ cmd.name = "proxyOn"
  /\ pc = "exited"
  /\ HasEvent(log, { "setClaudeProxy" })
  /\ PreSettings.proxy = UNDEF
  /\ readClaudeSettings(hostFile).proxy = "http://proxy:8891"
  /\ PreSettings.apiUrl = "https://legacy"
  /\ \A k \in SettingsEnvKeys : PreSettings.env[k] # UNDEF

\* The clearing writes of a temporary-mode launch, read off its event log.
EndpointCleared ==
  HasEvent(log, { "removeThirdPartyApi", "writeClaudeSettings" })

ProxyCleared == HasEvent(log, { "removeClaudeProxy" })

\* What C21 says about the proxy-clear decision and about the restore.
ProxyDecisionAndRestore ==
  /\ cmd.name = "runOfficial" =>
       (ProxyCleared <=>
          (getProxyConfig(pre.cfg).clearForOfficial = JTRUE
             /\ PreSettings.proxy # UNDEF))
  /\ cmd.name = "runProvider" => ~ProxyCleared
  /\ Completed =>
       (HasEvent(log, { "restoreClaudeSettings" })
          <=> (EndpointCleared \/ ProxyCleared))

PersistedValue(endpoint, token, k) ==
  CASE k = "ANTHROPIC_BASE_URL" -> endpoint.endpoint
    [] k = "ANTHROPIC_AUTH_TOKEN" -> token
    [] k = "ANTHROPIC_DEFAULT_HAIKU_MODEL" ->
         IF Truthy(endpoint.models.haiku) THEN endpoint.models.haiku ELSE UNDEF
    [] k = "ANTHROPIC_DEFAULT_OPUS_MODEL" ->
         IF Truthy(endpoint.models.opus) THEN endpoint.models.opus ELSE UNDEF
    [] k = "ANTHROPIC_DEFAULT_SONNET_MODEL" ->
         IF Truthy(endpoint.models.sonnet) THEN endpoint.models.sonnet
         ELSE UNDEF

\* The token a provider-mode launch uses: the stored one, else the answer.
LaunchToken ==
  IF HasEvent(log, { "prompt" }) THEN local.answer
  ELSE runProviderToken(pre.cfg, cmd.provider)

\* C22: after a persist-mode launch the env.ANTHROPIC_* keys of settings.json
\* are exactly those of the selected endpoint (base URL, token, the model
\* tiers it maps); no key or value of the earlier document remains, whatever
\* that document was.
C22_PersistNoStaleKeys ==
  (cmd.name = "runProvider" /\ cmd.persist /\ HasEvent(log, { "spawn" })) =>
    \A k \in ANTHROPIC_ENV_KEYS :
      readClaudeSettings(hostFile).env[k]
        = PersistedValue(getEndpointConfig(pre.cfg, cmd.provider),
                         LaunchToken, k)

\* C23: in Official mode the child's proxy variables follow the proxy value
\* settings.json holds after the clear step: when it was cleared or is absent
\* the child has none of http_proxy, https_proxy, HTTP_PROXY, HTTPS_PROXY;
\* otherwise all four equal that value.
C23_OfficialProxyVars ==
  (cmd.name = "runOfficial" /\ pc = "running") =>
    \A k \in ProxyVars :
      child.env[k] = readClaudeSettings(hostFile).proxy

\* C24: in Provider mode the child's ANTHROPIC_BASE_URL and
\* ANTHROPIC_AUTH_TOKEN are the resolved endpoint's base URL and token, it has
\* an ANTHROPIC_DEFAULT_<TIER>_MODEL for exactly the tiers the endpoint maps,
\* and its four proxy variables equal config.json's proxy.url exactly when
\* proxy.enabled is true, whatever settings.json's proxy is.
C24_ProviderLaunchEnv ==
  (cmd.name = "runProvider" /\ HasEvent(log, { "spawn" })) =>
    /\ \A k \in ANTHROPIC_ENV_KEYS :
         child.env[k]
           = PersistedValue(getEndpointConfig(pre.cfg, cmd.provider),
                            LaunchToken, k)
    /\ \A k \in ProxyVars :
         child.env[k] = IF getProxyConfig(pre.cfg).enabled
                        THEN getProxyConfig(pre.cfg).url ELSE UNDEF

\* The invocation that is scheduled, as a record like the one kept of the
\* other.
Cur == Slot(pc, cmd, local, child, log, status, closeCode, pre)

SlotTemp(s) ==
  \/ s.cmd.name = "runOfficial"
  \/ s.cmd.name = "runProvider" /\ ~s.cmd.persist

SlotCompleted(s) == s.pc = "exited" /\ s.closeCode # NOCLOSE

SlotMutated(s) ==
  HasEvent(s.log, { "removeThirdPartyApi", "removeClaudeProxy",
                    "writeClaudeSettings" })

\* C25: with one invocation only (no second one was started), a completed
\* temporary-mode launch leaves settings.json equal to the document that
\* existed before it; the loss of part of that document needs a second,
\* interleaved invocation (C25_Witness).
C25_SingleInvocationRestores ==
  \A s \in { Cur, peer } :
    (runs = MaxRuns - 1 /\ SlotTemp(s) /\ SlotCompleted(s))
      => readClaudeSettings(hostFile) = readClaudeSettings(OriginHost)

\* Two temporary-mode launches interleaved, both finished after their child's
\* exit, both having mutated and restored: the endpoint of the original
\* document is gone.
C25_Witness ==
  /\ SlotTemp(Cur) /\ SlotCompleted(Cur) /\ SlotMutated(Cur)
  /\ SlotTemp(peer) /\ SlotCompleted(peer) /\ SlotMutated(peer)
  /\ readClaudeSettings(OriginHost).env["ANTHROPIC_BASE_URL"] = "https://old"
  /\ readClaudeSettings(hostFile).env["ANTHROPIC_BASE_URL"] = UNDEF
  /\ readClaudeSettings(hostFile) # readClaudeSettings(OriginHost)

\* The slot is a finished `token set` of a built-in provider.
SlotSavedToken(s) ==
  /\ s.cmd.name = "tokenSet" /\ isBuiltinEndpoint(s.cmd.provider)
  /\ s.pc = "exited" /\ s.status = 0
  /\ HasEvent(s.log, { "saveToken" })

\* The slot is a provider launch that found a stored token and has spawned.
SlotSetLastUsed(s) ==
  /\ s.cmd.name = "runProvider"
  /\ HasEvent(s.log, { "setLastUsed" }) /\ ~HasEvent(s.log, { "saveToken" })

\* C26: a mutation of config.json writes the whole document it read, with
\* its own field changed: with one invocation only, after `token set p t`
\* for a built-in p the document is the one before it with tokens.p = t, and
\* after the setLastUsed of a launch of p it is the one before it with
\* lastUsed = p. Nothing but this read and write of the whole document
\* protects the other fields, so with a second, interleaved invocation an
\* update is lost (C26_Witness).
C26_WholeDocumentReadModifyWrite ==
  \A s \in { Cur, peer } :
    /\ (runs = MaxRuns - 1 /\ SlotSavedToken(s))
         => readConfig(cfgFile) =
              [readConfig(s.pre.cfg) EXCEPT
                 !.tokens[s.cmd.provider] = s.cmd.tokenArg]
    /\ (runs = MaxRuns - 1 /\ SlotSetLastUsed(s))
         => readConfig(cfgFile) =
              [readConfig(s.pre.cfg) EXCEPT !.lastUsed = s.cmd.provider]

\* Both invocations saved a token, for two different built-in providers, and
\* both ended with status 0: the token of one of them is not in config.json.
C26_Witness ==
  /\ SlotSavedToken(Cur) /\ SlotSavedToken(peer)
  /\ Cur.cmd.provider # peer.cmd.provider
  /\ readConfig(cfgFile).tokens[peer.cmd.provider] = peer.cmd.tokenArg
  /\ readConfig(cfgFile).tokens[Cur.cmd.provider] # Cur.cmd.tokenArg

\* The slot is a temporary-mode launch that changed settings.json and was
\* killed while its child ran.
SlotKilledMutated(s) ==
  /\ s.pc = "killed" /\ SlotTemp(s)
  /\ HasEvent(s.log, { "spawn" })
  /\ s.local.needsRestore

\* The values of settings.json that the launch of slot s removed.
LostFields(s) ==
  { << k, readClaudeSettings(s.pre.host).env[k] >> :
      k \in { a \in ANTHROPIC_ENV_KEYS :
                /\ readClaudeSettings(s.pre.host).env[a] # UNDEF
                /\ HasEvent(s.log, { "removeThirdPartyApi",
                                     "writeClaudeSettings" }) } }
  \cup { << "proxy", readClaudeSettings(s.pre.host).proxy >> :
           x \in { y \in { 1 } : HasEvent(s.log, { "removeClaudeProxy" }) } }

FieldOf(settings, k) == IF k = "proxy" THEN settings.proxy ELSE settings.env[k]

\* C27: a temporary-mode launch killed between its mutation of settings.json
\* and the child's exit never restores: at the kill the file is the mutated
\* one (not the one before the launch), no restore of that launch is logged,
\* and whatever commands run later, none of the removed fields has its old
\* value again.
C27_KilledLaunchNeverRestored ==
  /\ SlotKilledMutated(Cur)
       => /\ readClaudeSettings(hostFile) # readClaudeSettings(pre.host)
          /\ LostFields(Cur) # {}
          /\ \A l \in LostFields(Cur) :
               FieldOf(readClaudeSettings(hostFile), l[1]) = UNDEF
  /\ \A s \in { Cur, peer } :
       SlotKilledMutated(s)
         => /\ ~HasEvent(s.log, { "restoreClaudeSettings", "close" })
            /\ \A l \in LostFields(s) :
                 FieldOf(readClaudeSettings(hostFile), l[1]) # l[2]

\* A launch that cleared the endpoint and the proxy was killed; a later
\* temporary-mode launch ran to its end: it found nothing to clear, and the
\* file is still the cleared one.
C27_Witness ==
  /\ SlotKilledMutated(peer)
  /\ << "ANTHROPIC_BASE_URL", "https://old" >> \in LostFields(peer)
  /\ << "proxy", HostProxy >> \in LostFields(peer)
  /\ TempMode /\ Completed
  /\ readClaudeSettings(hostFile).env["ANTHROPIC_BASE_URL"] = UNDEF
  /\ readClaudeSettings(hostFile).proxy = UNDEF

PromptPcs ==
  { "promptToken", "tokenSetPrompt", "proxyPrompt", "addPromptToken",
    "addPromptModel" }

\* The invocation waits at a prompt, or was killed while it did.
AtPrompt == pc \in PromptPcs

KilledAtPrompt ==
  pc = "killed" /\ log # << >> /\ log[Len(log)] = "prompt"

\* C28: while a command waits at a prompt (provider launch without a stored
\* token, token set without a token, proxy on without a saved URL, add at
\* either of its two prompts) the invocation has written neither file, and
\* when it is killed there both files are the ones from before the
\* invocation.
C28_NoWriteBeforePrompt ==
  (AtPrompt \/ KilledAtPrompt)
    => /\ ~HasEvent(log, HostWriteEvents \cup CfgWriteEvents)
       /\ hostFile = pre.host
       /\ cfgFile = pre.cfg

\* add was killed at its second prompt, after a token had been typed.
C28_Witness ==
  /\ KilledAtPrompt
  /\ cmd.name = "add" /\ Len(SelectSeq(log, LAMBDA e : e = "prompt")) = 2
  /\ local.addToken = "tok-1"
  /\ hostFile = pre.host /\ cfgFile = pre.cfg

\* `token clean p` for a p that exists has ended.
TokenCleaned ==
  /\ cmd.name = "tokenClean" /\ pc = "exited"
  /\ assertProviderExists(pre.cfg, cmd.provider)

\* Some token, were it the empty string, is stored for p: in tokens.p or in
\* p's descriptor.
StoredToken(file, p) ==
  \/ getToken(file, p) # UNDEF
  \/ /\ isCustomEndpoint(file, p)
     /\ getCustomEndpoints(file)[
          FindIndexByName(getCustomEndpoints(file), p)].token # UNDEF

\* C29: `token clean p` for an existing provider ends with status 0; when p
\* had no stored token the document is unchanged; afterwards a launch of p
\* finds no token (neither in p's descriptor nor in tokens.p) and so prompts.
C29_TokenCleanRemovesToken ==
  TokenCleaned
    => /\ status = 0
       /\ ~StoredToken(pre.cfg, cmd.provider)
            => readConfig(cfgFile) = readConfig(pre.cfg)
       /\ ~Truthy(runProviderToken(cfgFile, cmd.provider))

\* `token set p t` with the token given on the command line has ended.
TokenSetDone ==
  cmd.name = "tokenSet" /\ pc = "exited" /\ Truthy(cmd.tokenArg)

\* C30: `token set p t` ends with status 0 and config.json is the document
\* before it with tokens.p = t when p is built-in, or with the token of p's
\* descriptor = t when p is a custom endpoint; for any other p it ends with
\* status 1 and config.json is the file before it. settings.json is never
\* touched.
C30_TokenSetStores ==
  TokenSetDone
    => /\ hostFile = pre.host
       /\ IF isBuiltinEndpoint(cmd.provider)
          THEN /\ status = 0
               /\ readConfig(cfgFile) =
                    [readConfig(pre.cfg) EXCEPT
                       !.tokens[cmd.provider] = cmd.tokenArg]
          ELSE IF isCustomEndpoint(pre.cfg, cmd.provider)
               THEN /\ status = 0
                    /\ readConfig(cfgFile) =
                         [readConfig(pre.cfg) EXCEPT
                            !.endpoints[FindIndexByName(
                                          readConfig(pre.cfg).endpoints,
                                          cmd.provider)].token = cmd.tokenArg]
               ELSE /\ status = 1
                    /\ cfgFile = pre.cfg

\* The token my-key of the custom endpoint my was overwritten with tok-2.
C30_Witness ==
  /\ TokenSetDone /\ status = 0
  /\ cmd.provider = "my" /\ cmd.tokenArg = "tok-2"
  /\ getEndpointConfig(pre.cfg, "my").token = "my-key"
  /\ getEndpointConfig(cfgFile, "my").token = "tok-2"
  /\ getToken(cfgFile, "my") = UNDEF

\* No invocation is under way.
Quiescent == pc \in { "idle", "exited" }

\* C31: from the default documents, whenever no command is under way (after
\* proxy on, off, reset and launches that ran to their end), proxy.enabled of
\* config.json is true exactly when settings.json has a proxy entry, and
\* then that entry equals proxy.url.
C31_ProxyEnabledIffHostProxy ==
  Quiescent
    => /\ getProxyConfig(cfgFile).enabled
            <=> (getClaudeProxy(hostFile) # UNDEF)
       /\ getProxyConfig(cfgFile).enabled
            => getClaudeProxy(hostFile) = getProxyConfig(cfgFile).url

\* proxy on (with the URL typed at the prompt) was followed by an official
\* launch that ran to its end.
C31_Witness ==
  /\ cmd.name = "runOfficial" /\ Completed
  /\ prev.name = "proxyOn"
  /\ getProxyConfig(cfgFile).enabled
  /\ getClaudeProxy(hostFile) = "http://proxy:8891"
  /\ getProxyConfig(cfgFile).url = "http://proxy:8891"

PreProxy == getProxyConfig(pre.cfg)

\* C32: proxy on keeps clearForOfficial, prompts exactly when no URL is
\* saved and otherwise enables the saved URL; proxy off keeps url and
\* clearForOfficial and removes the proxy entry of settings.json; proxy reset
\* leaves proxy = {enabled:false} and removes the entry.
C32_ProxyCommandEffects ==
  /\ (cmd.name = "proxyOn" /\ pc = "proxyPrompt") => ~Truthy(PreProxy.url)
  /\ (cmd.name = "proxyOn" /\ pc = "exited")
       => /\ HasEvent(log, { "prompt" }) <=> ~Truthy(PreProxy.url)
          /\ getProxyConfig(cfgFile).enabled
          /\ getProxyConfig(cfgFile).clearForOfficial = PreProxy.clearForOfficial
          /\ IF Truthy(PreProxy.url)
             THEN getProxyConfig(cfgFile).url = PreProxy.url
             ELSE getProxyConfig(cfgFile).url
                    \in { trim(raw) : raw \in RawProxyAnswers }
          /\ getClaudeProxy(hostFile) = getProxyConfig(cfgFile).url
  /\ (cmd.name = "proxyOff" /\ pc = "exited")
       => /\ getProxyConfig(cfgFile) = [PreProxy EXCEPT !.enabled = FALSE]
          /\ getClaudeProxy(hostFile) = UNDEF
  /\ (cmd.name = "proxyReset" /\ pc = "exited")
       => /\ getProxyConfig(cfgFile) = ProxyConfig(FALSE, UNDEF, UNDEF)
          /\ getClaudeProxy(hostFile) = UNDEF

\* proxy off where the proxy was on with a saved URL and clearForOfficial
\* true, and settings.json had a proxy entry.
C32_Witness ==
  /\ cmd.name = "proxyOff" /\ pc = "exited"
  /\ PreProxy = ProxyConfig(TRUE, "http://proxy:8891", JTRUE)
  /\ getClaudeProxy(pre.host) = HostProxy
  /\ getProxyConfig(cfgFile) = ProxyConfig(FALSE, "http://proxy:8891", JTRUE)
  /\ getClaudeProxy(hostFile) = UNDEF

\* The custom endpoints of config.json whose name is exactly `name`.
CustomNamed(file, name) ==
  { i \in DOMAIN readConfig(file).endpoints :
      readConfig(file).endpoints[i].name = name }

\* The provider launch has resolved its name and gone on.
Resolved ==
  /\ cmd.name = "runProvider"
  /\ pc \in { "promptToken", "running" } \/ closeCode # NOCLOSE

\* C33: a provider name equal to a built-in name resolves to the built-in
\* descriptor whatever the custom list holds; any other name resolves to the
\* custom endpoint of exactly that name, and to nothing (exit status 1, no
\* write, both files as before) when there is none; at the prompt that
\* follows a resolution nothing has been written.
C33_ResolutionBuiltinFirst ==
  /\ Resolved
       => IF cmd.provider \in BuiltinNames
          THEN \E i \in DOMAIN BUILTIN_ENDPOINTS :
                 /\ BUILTIN_ENDPOINTS[i].name = cmd.provider
                 /\ local.endpoint = BUILTIN_ENDPOINTS[i]
          ELSE \E i \in CustomNamed(pre.cfg, cmd.provider) :
                 local.endpoint = readConfig(pre.cfg).endpoints[i]
  /\ (cmd.name = "runProvider" /\ ~Resolved /\ pc = "exited")
       => /\ cmd.provider \notin BuiltinNames
          /\ CustomNamed(pre.cfg, cmd.provider) = {}
          /\ status = 1
  /\ (cmd.name = "runProvider" /\ (pc = "promptToken" \/ ~Resolved))
       => /\ ~HasEvent(log, HostWriteEvents \cup CfgWriteEvents)
          /\ hostFile = pre.host /\ cfgFile = pre.cfg

\* glm was launched while the custom list holds an endpoint named glm: the
\* child has the built-in URL and the token of tokens.glm.
C33_Witness ==
  /\ Resolved /\ pc = "running" /\ cmd.provider = "glm"
  /\ CustomNamed(pre.cfg, "glm") # {}
  /\ local.endpoint = BUILTIN_ENDPOINTS[1]
  /\ child.env["ANTHROPIC_BASE_URL"] = BUILTIN_ENDPOINTS[1].endpoint
  /\ child.env["ANTHROPIC_AUTH_TOKEN"] = "glm-key"

CustomList(file) == readConfig(file).endpoints

\* add has stored its endpoint.
AddStored ==
  cmd.name = "add" /\ pc = "exited" /\ HasEvent(log, { "addCustomEndpoint" })

\* C34: the names of the custom list are pairwise distinct and none is a
\* built-in name; an add of a name the list already holds leaves the list as
\* long as it was, with the entry at that position replaced by exactly the
\* new descriptor and the other entries where they were; an add of a new name
\* appends.
C34_NamesDistinctReplaceInPlace ==
  /\ \A i, j \in DOMAIN CustomList(cfgFile) :
       /\ CustomList(cfgFile)[i].name \notin BuiltinNames
       /\ CustomList(cfgFile)[i].name = CustomList(cfgFile)[j].name => i = j
  /\ AddStored
       => \E modelName \in { trim(raw) : raw \in RawModelAnswers } :
            LET ep == Endpoint(cmd.provider, cmd.url, local.addToken,
                               Models(modelName, modelName, modelName))
                at == CustomNamed(pre.cfg, cmd.provider)
            IN IF at = {}
               THEN CustomList(cfgFile) = Append(CustomList(pre.cfg), ep)
               ELSE \E i \in at :
                      CustomList(cfgFile) = [CustomList(pre.cfg) EXCEPT ![i] = ep]

\* my, the first of two entries, was added again with an empty token and an
\* empty model name: it is still the first of two and nothing of the earlier
\* descriptor is left.
C34_Witness ==
  /\ AddStored /\ cmd.provider = "my"
  /\ CustomList(pre.cfg) = << CustomEndpoint("my-key"), OtherEndpoint >>
  /\ CustomList(cfgFile) =
       << Endpoint("my", "https://my.example/api", "", Models("", "", "")),
          OtherEndpoint >>

PreConfig == readConfig(pre.cfg)

\* The two documents differ at most in the token of `name`.
SameButToken(a, b, name) ==
  /\ \A p \in DOMAIN a.tokens : p # name => a.tokens[p] = b.tokens[p]
  /\ a.lastUsed = b.lastUsed
  /\ a.proxy = b.proxy
  /\ Len(a.endpoints) = Len(b.endpoints)
  /\ \A i \in DOMAIN a.endpoints :
       IF a.endpoints[i].name = name
       THEN [a.endpoints[i] EXCEPT !.token = UNDEF]
              = [b.endpoints[i] EXCEPT !.token = UNDEF]
       ELSE a.endpoints[i] = b.endpoints[i]

\* C35: add and remove leave tokens, lastUsed, proxy and the other endpoints
\* (in their order) as they were, remove also when lastUsed names the removed
\* endpoint; token set and token clean leave the other providers' tokens,
\* lastUsed, proxy and every endpoint (but for the token of the named one) as
\* they were, and for a built-in provider the whole custom list.
C35_MutationFrame ==
  /\ (cmd.name \in { "add", "remove" } /\ pc = "exited")
       => /\ readConfig(cfgFile).tokens = PreConfig.tokens
          /\ readConfig(cfgFile).lastUsed = PreConfig.lastUsed
          /\ readConfig(cfgFile).proxy = PreConfig.proxy
          /\ FilterOutName(CustomList(cfgFile), cmd.provider)
               = FilterOutName(PreConfig.endpoints, cmd.provider)
  /\ (cmd.name \in { "tokenSet", "tokenClean" } /\ pc = "exited")
       => /\ SameButToken(readConfig(cfgFile), PreConfig, cmd.provider)
          /\ isBuiltinEndpoint(cmd.provider)
               => CustomList(cfgFile) = PreConfig.endpoints

\* my, which lastUsed names, was removed: lastUsed still names it, and the
\* tokens (that of my among them), the proxy and the other endpoint are as
\* before.
C35_Witness ==
  /\ cmd.name = "remove" /\ pc = "exited" /\ status = 0
  /\ cmd.provider = "my" /\ PreConfig.lastUsed = "my"
  /\ CustomNamed(pre.cfg, "my") # {}
  /\ CustomList(cfgFile) = << OtherEndpoint >>
  /\ readConfig(cfgFile).lastUsed = "my"
  /\ readConfig(cfgFile).tokens["my"] = "tok-1"
  /\ readConfig(cfgFile).proxy = ProxyConfig(TRUE, "http://proxy:8891", JTRUE)

Broken(file) == file.kind \in { "absent", "corrupt" }

\* The file, were it absent where it is unparseable.
Unbroken(file) ==
  IF file.kind = "corrupt" THEN [file EXCEPT !.kind = "absent"] ELSE file

\* What an official launch started on files h and c has done when it awaits
\* the child.
OfficialFrom(h, c) ==
  runOfficialLaunch(Frame(h, c, << >>, NoChild, NoLocal), parentEnv, cmd.args)

\* C36: an absent or unparseable settings.json is read as {} and an absent or
\* unparseable config.json as the default document, and no read changes a
\* file: a file the invocation has not written is the file it found (an
\* unparseable one is still unparseable); on such a settings.json an
\* official or provider launch finds nothing to clear and nothing to
\* restore; on such a config.json a built-in provider has no token (the
\* launch prompts) and any other name is unknown (exit status 1); and an
\* official launch does on unparseable files exactly what it does on absent
\* ones.
C36_BrokenFileReadAsDefault ==
  /\ ~HasEvent(log, HostWriteEvents) => hostFile = pre.host
  /\ ~HasEvent(log, CfgWriteEvents) => cfgFile = pre.cfg
  /\ (Broken(pre.host) /\ cmd.name \in { "runOfficial", "runProvider" }
        /\ ~cmd.persist)
       => /\ ~HasEvent(log, HostWriteEvents)
          /\ ~local.needsRestore
          /\ pc # "crashed" => hostFile = pre.host
  /\ (Broken(pre.cfg) /\ cmd.name = "runProvider")
       => IF cmd.provider \in BuiltinNames
          THEN log # << >> /\ log[1] = "prompt"
          ELSE pc = "exited" /\ status = 1 /\ cfgFile = pre.cfg
  /\ (cmd.name = "runOfficial" /\ pc = "running")
       => LET f == OfficialFrom(Unbroken(pre.host), Unbroken(pre.cfg))
          IN /\ child = f.child /\ log = f.log /\ local = f.local
             /\ Unbroken(hostFile) = f.host
             /\ Unbroken(cfgFile) = f.cfg

\* An official launch ran to its end on two unparseable files: nothing was
\* written and both are as they were.
C36_Witness ==
  /\ cmd.name = "runOfficial" /\ Completed
  /\ pre.host.kind = "corrupt" /\ pre.cfg.kind = "corrupt"
  /\ hostFile = pre.host /\ cfgFile = pre.cfg
  /\ ~HasEvent(log, HostWriteEvents \cup CfgWriteEvents)
  /\ status = 0

\* The variable the tool computes for key k of the launch under way, UNDEF
\* when it computes none.
Computed(k) ==
  CASE cmd.name = "runProvider" /\ k \in ANTHROPIC_ENV_KEYS ->
         PersistedValue(getEndpointConfig(pre.cfg, cmd.provider),
                        LaunchToken, k)
    [] cmd.name = "runProvider" /\ k \in ProxyVars ->
         IF getProxyConfig(pre.cfg).enabled
            /\ Truthy(getProxyConfig(pre.cfg).url)
         THEN getProxyConfig(pre.cfg).url ELSE UNDEF
    [] cmd.name = "runOfficial" /\ k \in ProxyVars ->
         IF Truthy(readClaudeSettings(hostFile).proxy)
         THEN readClaudeSettings(hostFile).proxy ELSE UNDEF
    [] OTHER -> UNDEF

\* The child's environment is the parent's with the computed variables laid
\* over it.
Overlaid ==
  \A k \in LaunchEnvKeys :
    child.env[k] = IF Computed(k) # UNDEF THEN Computed(k) ELSE parentEnv[k]

\* C37: no step changes the environment of the tool's own process, and every
\* step that spawns the child gives it the parent's variables with the
\* computed ones laid over them: a key that is not computed has the parent's
\* value, a computed key has the computed value also when the parent has
\* one, and the endpoint the options were built from is the resolved one.
C37_LaunchEnvOverlay ==
  [][/\ parentEnv' = parentEnv
     /\ (pc # "running" /\ pc' = "running")
          => /\ Overlaid'
             /\ cmd'.name = "runProvider"
                  => local'.endpoint = getEndpointConfig(pre'.cfg, cmd'.provider)]_vars

\* A provider launch from a shell that has ANTHROPIC_BASE_URL and HTTP_PROXY
\* of its own, with the launcher's proxy off: the child has the endpoint's
\* URL, and the shell's PATH and HTTP_PROXY.
C37_Witness ==
  /\ cmd.name = "runProvider" /\ pc = "running"
  /\ parentEnv["ANTHROPIC_BASE_URL"] = "https://shell"
  /\ child.env["ANTHROPIC_BASE_URL"] = BUILTIN_ENDPOINTS[1].endpoint
  /\ child.env["PATH"] = "/usr/bin"
  /\ child.env["HTTP_PROXY"] = "http://shell-proxy:3128"
  /\ child.env["http_proxy"] = UNDEF

\* The tool was started from a command line.
Invoked == Len(cmd.argv) >= 2

\* The user's arguments on the command line of the current invocation.
UserArgs == SubSeq(cmd.argv, 3, Len(cmd.argv))

\* The positions of '--' among the user's arguments.
DashAt == { i \in 1..Len(UserArgs) : UserArgs[i] = "--" }

\* i is the position of the first '--'.
FirstDash(i) == i \in DashAt /\ \A j \in DashAt : i <= j

\* A '--' is present, is not the first user argument, and no argument before
\* it is a non-option word or '--claude'.
MisplacedDash ==
  \E i \in DashAt :
    /\ FirstDash(i)
    /\ i > 1
    /\ \A j \in 1..(i - 1) :
         startsWithDash(UserArgs[j]) /\ UserArgs[j] # "--claude"

\* The root command's action handler was entered.
HandlerRan == commanderParse(parseArgs(cmd.argv)).outcome = "action"

ProviderGiven ==
  \E i \in 1..Len(UserArgs) :
    /\ ~startsWithDash(UserArgs[i])
    /\ \A j \in DashAt : i < j

\* The command line gives --claude before the first '--'.
ClaudeGiven ==
  \E i \in 1..Len(UserArgs) :
    /\ UserArgs[i] = "--claude"
    /\ \A j \in DashAt : i < j

\* Every word before the first '--' is a provider name or --claude, so that
\* Commander accepts the command line and validateDashPosition returns.
WellFormed ==
  /\ \A i \in 1..Len(UserArgs) :
       (\A j \in DashAt : i < j) =>
         (~startsWithDash(UserArgs[i]) \/ UserArgs[i] = "--claude")
  /\ ~MisplacedDash

\* The mode the command line asks for.
ModeOf(provider, claude) ==
  CASE ~provider /\ ~claude -> "runOfficial"
    [] provider /\ ~claude -> "runProvider"
    [] provider /\ claude -> "runProvider"
    [] ~provider /\ claude -> "restoreOfficial"

\* C39: the mode is a function of (provider given?, --claude given?) alone:
\* neither is Official temporary, provider only is Provider temporary, both
\* is Provider persist, --claude only is Restore-official; and the arguments
\* after '--' are handed on without changing the mode.
C39_ModeSelection ==
  (Invoked /\ WellFormed) =>
    /\ cmd.name = ModeOf(ProviderGiven, ClaudeGiven)
    /\ cmd.name = "runProvider" => cmd.persist = ClaudeGiven
    /\ cmd.args = extractPassthroughArgs(cmd.argv)

====
